---- MODULE Spec2Model ----
(***************************************************************************)
(* Attribute-driven DOM controllers of persik-design:                      *)
(*   ToggleGroup        src/src/js/components/ToggleGroup.js               *)
(*   SwitchController   src/unnamed/part_000                               *)
(*   SetStateController src/unnamed/part_002                               *)
(*   BreakpointMover    src/src/js/components/BreakpointMover.js           *)
(*   page start-up      src/src/js/main.js                                 *)
(* Every controller has its own specification (SpecToggle, SpecSwitch,     *)
(* SpecSetState, SpecMover; SpecParse for the attribute parsers); the      *)
(* variables of the other controllers stay unchanged.                      *)
(***************************************************************************)
EXTENDS Naturals, Integers, Sequences, FiniteSets, TLC

VARIABLES
  tgRules,      \* ToggleGroup.rules: sequence of [element, group, className]
  tgGroups,     \* ToggleGroup.groups: group name -> sequence of rules
  tgClasses,    \* classList of every data-toggle element
  tgLast,       \* history: the last ToggleGroup.toggle call and the state before it
  swClasses,    \* classList of every switch target
  lenisRunning, \* state of the smooth-scroll collaborator (start()/stop())
  swLast,       \* history: the last SwitchController.toggle call
  ssClasses,    \* classList of every node a data-set-state selector can match
  ssDetached,   \* nodes currently removed from their parent (re-rendering)
  ssListening,  \* the document-level capture click listener is registered
  actionCache,  \* SetStateController._actionCache: trigger -> SetStateAction
  byTarget,     \* SetStateController._byTarget: target -> set of actions
  outsideActive,\* SetStateController._outsideActive
  suppress,     \* SetStateController._suppressOutsideOnce
  timers,       \* pending setTimeout(..., 0) callbacks, in scheduling order
  ssLast,       \* history: the last step of the SetState page and the state before
  ssAttr,       \* the data-set-state attribute of every trigger (split, trimmed)
  ssFirstAttr,  \* history: the attribute each trigger had at its first click
  parsed,       \* the last attribute value read by a parser, and what it yielded
  bmRules,      \* BreakpointMover.rules: sequence of [element, from, to, query]
  bmChildren,   \* ordered child lists of the containers and of body
  mqMatches,    \* MediaQueryList.matches of every query, as the viewport has it
  bmSubscribed, \* rules whose handler is a "change" listener of rule.mq
  domLoaded,    \* the DOMContentLoaded handler of main.js has run
  belowTriggers,\* the triggers of loadBelowFold are registered
  bmLast,       \* history: the last step of the BreakpointMover page
  navMenu,      \* NavMenu: _mode, the items carrying activeCl, _currentDesktopActive
  navOpts,      \* NavMenu options clearOnLeave and escToClear
  navLast,      \* history: the last event of the NavMenu page and the state before
  selView,      \* AccessibleSelect: _is-active of the root, aria-expanded, document listeners
  selData,      \* AccessibleSelect: selectedValues, aria-selected of the options, input.value
  selOpts,      \* AccessibleSelect: has a button, has a hidden input, multiple, closeOnSelect
  selLast,      \* history: the last call on the select and the state before
  fiView,       \* FileFieldView: data-placeholder of the field, aria-invalid and data-error of the label
  fiFiles,      \* input.files of the file input
  fiOriginal,   \* history: the data-placeholder the markup had at construction
  fiLast,       \* history: the last event of the file input, the event dispatched, the view before
  belowFold,    \* main.js: belowLoaded, the imports started, the pending triggers
  lazyVideo,    \* one LazyVideo: options, activated, subscriptions, calls made
  lvLast        \* history: the last step of the LazyVideo and the state before

tgVars == <<tgRules, tgGroups, tgClasses, tgLast>>
swVars == <<swClasses, lenisRunning, swLast>>
ssVars == <<ssClasses, ssDetached, ssListening, actionCache, byTarget,
           outsideActive, suppress, timers, ssLast>>
atVars == <<ssAttr, ssFirstAttr>>
psVars == <<parsed>>
bmVars == <<bmRules, bmChildren, mqMatches, bmSubscribed, domLoaded,
           belowTriggers, bmLast>>
navVars == <<navMenu, navOpts, navLast>>
selVars == <<selView, selData, selOpts, selLast>>
fiVars == <<fiView, fiFiles, fiOriginal, fiLast>>
bfVars == <<belowFold>>
lvVars == <<lazyVideo, lvLast>>
lateVars == <<bfVars, lvVars>>
uiVars == <<navVars, selVars, fiVars, lateVars>>
otherVars == <<tgVars, swVars, ssVars, atVars, psVars, bmVars>>
vars == <<tgVars, swVars, ssVars, atVars, psVars, bmVars, uiVars>>

\* The class names that occur in the page's markup.
ClassNames == {"_is-active", "_x"}

(***************************************************************************)
(* ToggleGroup                                                             *)
(***************************************************************************)

\* Number of data-toggle elements of the page.
NumToggle == 3

ToggleElements == 1 .. NumToggle

GroupNames == {"g1", "g2"}

\* One rule per data-toggle element (createRules maps querySelectorAll's
\* distinct elements), in document order.
ToggleRule(e, g, c) == [element |-> e, group |-> g, className |-> c]

RECURSIVE mapGroupsFrom(_, _, _)
mapGroupsFrom(rules, i, map) ==
  IF i > Len(rules) THEN map
  ELSE LET r == rules[i]
           old == IF r.group \in DOMAIN map THEN map[r.group] ELSE <<>>
           new == [g \in (DOMAIN map) \cup {r.group} |->
                     IF g = r.group THEN Append(old, r) ELSE map[g]]
       IN mapGroupsFrom(rules, i + 1, new)

mapGroupsFirstOnly(rules) ==
  LET gs == {rules[i].group : i \in 1 .. Len(rules)}
  IN [g \in gs |->
        LET first == CHOOSE i \in 1 .. Len(rules) :
                       /\ rules[i].group = g
                       /\ \A j \in 1 .. Len(rules) : rules[j].group = g => i <= j
        IN <<rules[first]>>]

mapGroups(rules) == mapGroupsFrom(rules, 1, <<>>)

\* group.forEach((r) => r.element.classList.remove(r.className))
RECURSIVE removeEach(_, _, _)
removeEach(group, i, classes) ==
  IF i > Len(group) THEN classes
  ELSE removeEach(group, i + 1,
         [classes EXCEPT ![group[i].element] = @ \ {group[i].className}])

toggleResultNoDeselect(rule, groups, classes) ==
  LET cleared == removeEach(groups[rule.group], 1, classes)
  IN [cleared EXCEPT ![rule.element] = @ \cup {rule.className}]

\* A toggle that clears rule.className on every element of the page.
toggleResultEveryElement(rule, groups, classes) ==
  LET isActive == rule.className \in classes[rule.element]
      cleared == [e \in DOMAIN classes |-> classes[e] \ {rule.className}]
  IN IF ~isActive
     THEN [cleared EXCEPT ![rule.element] = @ \cup {rule.className}]
     ELSE cleared

\* The classLists after toggle(rule).
toggleResult(rule, groups, classes) ==
  LET group == groups[rule.group]
      isActive == rule.className \in classes[rule.element]
      cleared == removeEach(group, 1, classes)
  IN IF ~isActive
     THEN [cleared EXCEPT ![rule.element] = @ \cup {rule.className}]
     ELSE cleared

TgInit ==
  /\ \E g \in [ToggleElements -> GroupNames], c \in [ToggleElements -> ClassNames] :
       tgRules = [e \in ToggleElements |-> ToggleRule(e, g[e], c[e])]
  /\ tgGroups = mapGroups(tgRules)
  /\ tgClasses \in [ToggleElements -> SUBSET ClassNames]
  /\ tgLast = [op |-> "none", rule |-> 1, pre |-> tgClasses, touched |-> {}]

TgIdle ==
  /\ tgRules = <<>>
  /\ tgGroups = <<>>
  /\ tgClasses = <<>>
  /\ tgLast = [op |-> "none", rule |-> 1, pre |-> <<>>, touched |-> {}]

\* A click on rule i's element: the listener of init() calls toggle(rule).
Toggle(i) ==
  /\ tgClasses' = toggleResult(tgRules[i], tgGroups, tgClasses)
  /\ tgLast' = [op |-> "toggle", rule |-> i, pre |-> tgClasses,
                 touched |-> tgLast.touched \cup {tgRules[i].group}]
  /\ UNCHANGED <<tgRules, tgGroups>>

(***************************************************************************)
(* SwitchController                                                        *)
(***************************************************************************)

\* Number of elements a data-switch target selector can resolve to.
NumSwitchTargets == 2

SwitchTargets == 1 .. NumSwitchTargets

\* document.querySelector(cfg.target) found no element: rule.target is null.
NoTarget == 0

\* The rules the constructor is given: the page carries one trigger for
\* every combination.  target is NoTarget when querySelector found nothing;
\* lock is "absent" for a hand-built rule without the field.
SwitchRules ==
  [target : SwitchTargets \cup {NoTarget},
   className : ClassNames,
   action : {"on", "off"},
   lock : {"true", "false", "absent"}]

switchToggleLockFirst(rule, classes) ==
  IF rule.action = "on"
  THEN [classes |-> IF rule.target = NoTarget THEN classes
                    ELSE [classes EXCEPT ![rule.target] = @ \cup {rule.className}],
        calls |-> IF rule.lock = "true" THEN <<"stop">> ELSE <<>>]
  ELSE [classes |-> IF rule.target = NoTarget THEN classes
                    ELSE [classes EXCEPT ![rule.target] = @ \ {rule.className}],
        calls |-> IF rule.lock = "false" THEN <<"start">> ELSE <<>>]

switchToggleFlip(rule, classes) ==
  IF rule.target = NoTarget
  THEN [classes |-> classes, calls |-> <<>>]
  ELSE IF rule.action = "on"
  THEN [classes |-> [classes EXCEPT ![rule.target] =
                       IF rule.className \in @ THEN @ \ {rule.className}
                       ELSE @ \cup {rule.className}],
        calls |-> IF rule.lock = "true" THEN <<"stop">> ELSE <<>>]
  ELSE [classes |-> [classes EXCEPT ![rule.target] = @ \ {rule.className}],
        calls |-> IF rule.lock = "false" THEN <<"start">> ELSE <<>>]

switchToggleLockLoose(rule, classes) ==
  IF rule.target = NoTarget
  THEN [classes |-> classes, calls |-> <<>>]
  ELSE IF rule.action = "on"
  THEN [classes |-> [classes EXCEPT ![rule.target] = @ \cup {rule.className}],
        calls |-> IF rule.lock # "absent" THEN <<"stop">> ELSE <<>>]
  ELSE [classes |-> [classes EXCEPT ![rule.target] = @ \ {rule.className}],
        calls |-> IF rule.lock # "absent" THEN <<"start">> ELSE <<>>]

\* toggle(rule): the classLists afterwards and the collaborator calls made.
switchToggle(rule, classes) ==
  IF rule.target = NoTarget
  THEN [classes |-> classes, calls |-> <<>>]
  ELSE IF rule.action = "on"
  THEN [classes |-> [classes EXCEPT ![rule.target] = @ \cup {rule.className}],
        calls |-> IF rule.lock # "absent" /\ rule.lock = "true"
                  THEN <<"stop">> ELSE <<>>]
  ELSE [classes |-> [classes EXCEPT ![rule.target] = @ \ {rule.className}],
        calls |-> IF rule.lock # "absent" /\ rule.lock = "false"
                  THEN <<"start">> ELSE <<>>]

\* lenis.stop() / lenis.start() applied in call order.
RECURSIVE lenisAfter(_, _, _)
lenisAfter(calls, i, running) ==
  IF i > Len(calls) THEN running
  ELSE lenisAfter(calls, i + 1, calls[i] = "start")

SwInit ==
  /\ swClasses \in [SwitchTargets -> SUBSET ClassNames]
  /\ lenisRunning \in BOOLEAN
  /\ swLast = [op |-> "none"]

SwIdle ==
  /\ swClasses = <<>>
  /\ lenisRunning = TRUE
  /\ swLast = [op |-> "none"]

CallsOf(name) == {i \in 1 .. Len(swLast.calls) : swLast.calls[i] = name}

\* A click on the trigger of `rule`: the listener of init() calls toggle(rule).
SwitchToggle(rule) ==
  LET r == switchToggle(rule, swClasses)
  IN /\ swClasses' = r.classes
     /\ lenisRunning' = lenisAfter(r.calls, 1, lenisRunning)
     /\ swLast' = [op |-> "toggle", rule |-> rule, pre |-> swClasses,
                   calls |-> r.calls]

(***************************************************************************)
(* SetStateController: the page                                            *)
(*                                                                         *)
(*   body                                                                  *)
(*    |- t1  data-set-state="#p,_is-active,true"                           *)
(*    |- t2  data-set-state="#p,_x"                                        *)
(*    |- t3  data-set-state="#q,_is-active,TRUE"                           *)
(*    |- P1  (matches #p)                                                  *)
(*    |   `- r1  data-reset-state                                          *)
(*    |       `- t4  data-set-state=""                                     *)
(*    |- P2  (matches #p; the re-rendered panel, detached at first)        *)
(*    |   `- r2  data-reset-state                                          *)
(*    `- Q   (matches #q) data-reset-state                                 *)
(***************************************************************************)

NoNode == "null"

SSNodes == {"body", "t1", "t2", "t3", "P1", "r1", "t4", "P2", "r2", "Q"}

Parent ==
  [n \in SSNodes |->
     CASE n = "body" -> NoNode
       [] n = "r1" -> "P1"
       [] n = "t4" -> "r1"
       [] n = "r2" -> "P2"
       [] OTHER -> "body"]

\* Re-rendering by another script: the old panel is removed from the
\* document and the new one, matching the same selector, is inserted.
Removable == {"P1"}

Insertable == {"P2"}

\* The value of the data-set-state attribute, split at "," and trimmed
\* (raw.split(",").map((p) => p.trim())).
SetStateAttr ==
  [n \in {"t1", "t2", "t3", "t4"} |->
     CASE n = "t1" -> <<"#p", "_is-active", "true">>
       [] n = "t2" -> <<"#p", "_x">>
       [] n = "t3" -> <<"#q", "_is-active", "TRUE">>
       [] n = "t4" -> <<"">>]

Triggers == DOMAIN SetStateAttr

ResetEls == {"r1", "r2", "Q"}

\* The nodes matching a selector, in document order.
Matching(selector) ==
  CASE selector = "#p" -> <<"P1", "P2">>
    [] selector = "#q" -> <<"Q">>
    [] OTHER -> <<>>

SSTargets == {"P1", "P2", "Q"}

\* n and its ancestors, innermost first, following the parent links present.
RECURSIVE Chain(_, _)
Chain(n, det) ==
  IF n = NoNode THEN <<>>
  ELSE IF n \in det THEN <<n>>
  ELSE <<n>> \o Chain(Parent[n], det)

\* t.contains(x)
Contains(t, x, det) == \E i \in 1 .. Len(Chain(x, det)) : Chain(x, det)[i] = t

\* document.contains(n)
InDoc(n, det) == Contains("body", n, det)

\* n.closest("[attr]") for the nodes carrying the attribute.
Closest(n, carrying, det) ==
  LET c == Chain(n, det)
      hits == {i \in 1 .. Len(c) : c[i] \in carrying}
  IN IF hits = {} THEN NoNode
     ELSE c[CHOOSE i \in hits : \A j \in hits : i <= j]

\* document.querySelector(selector)
QuerySelector(selector, det) ==
  LET m == Matching(selector)
      hits == {i \in 1 .. Len(m) : InDoc(m[i], det)}
  IN IF hits = {} THEN NoNode
     ELSE m[CHOOSE i \in hits : \A j \in hits : i <= j]

(***************************************************************************)
(* SetStateParser                                                          *)
(***************************************************************************)

\* String.prototype.toLowerCase on the values that occur.
ToLowerCase(str) ==
  CASE str = "TRUE" -> "true"
    [] str = "YES" -> "yes"
    [] OTHER -> str

\* .filter(Boolean): the empty strings are dropped.
FilterBoolean(fields) == SelectSeq(fields, LAMBDA f : f # "")

\* SetStateParser.parse on the split and trimmed fields.
Parse(fields) ==
  LET parts == FilterBoolean(fields)
  IN IF Len(parts) = 0 THEN [ok |-> FALSE]
     ELSE [ok |-> TRUE,
           selector |-> parts[1],
           className |-> IF Len(parts) >= 2 THEN parts[2] ELSE "_is-active",
           outsideReset |->
             /\ Len(parts) >= 3
             /\ ToLowerCase(parts[3]) \in {"true", "1", "yes"}]

(***************************************************************************)
(* SetStateAction and SetStateController as functions of the controller    *)
(* state s = [classes, cache, byTarget, active, suppress, timers]          *)
(***************************************************************************)

EmptyMap == [k \in {} |-> {}]

Put(f, k, v) == [x \in (DOMAIN f) \cup {k} |-> IF x = k THEN v ELSE f[x]]

Get(f, k) == IF k \in DOMAIN f THEN f[k] ELSE {}

\* resolveTarget without the document.contains test: a cached node is kept
\* after it has left the document.
resolveTargetSticky(action, det) ==
  IF action.target # NoNode THEN action.target
  ELSE QuerySelector(action.selector, det)

\* SetStateAction.resolveTarget: the node the action's target becomes.
resolveTarget(action, det) ==
  IF action.target # NoNode /\ InDoc(action.target, det)
  THEN action.target
  ELSE QuerySelector(action.selector, det)

\* resolveTarget's assignment to this.target, for the action of trigger tr.
Resolved(s, tr, det) ==
  [s EXCEPT !.cache[tr].target = resolveTarget(s.cache[tr], det)]

applyToggle(s, tr, det) ==
  LET s1 == Resolved(s, tr, det)
      a == s1.cache[tr]
  IN IF a.target = NoNode THEN [s |-> s1, ok |-> FALSE]
     ELSE [s |-> [s1 EXCEPT !.classes[a.target] =
                    IF a.className \in @ THEN @ \ {a.className}
                    ELSE @ \cup {a.className}],
           ok |-> TRUE]

\* SetStateAction.apply
apply(s, tr, det) ==
  LET s1 == Resolved(s, tr, det)
      a == s1.cache[tr]
  IN IF a.target = NoNode THEN [s |-> s1, ok |-> FALSE]
     ELSE [s |-> [s1 EXCEPT !.classes[a.target] = @ \cup {a.className}],
           ok |-> TRUE]

\* SetStateAction.reset
reset(s, tr, det) ==
  LET s1 == Resolved(s, tr, det)
      a == s1.cache[tr]
  IN IF a.target = NoNode THEN s1
     ELSE [s1 EXCEPT !.classes[a.target] = @ \ {a.className}]

\* SetStateAction.isApplied (after its resolveTarget)
isApplied(s, tr) ==
  LET a == s.cache[tr]
  IN a.target # NoNode /\ a.className \in s.classes[a.target]

\* _getOrCreateAction re-reading the attribute on every click: the cached
\* action takes the directive the attribute has now.
getOrCreateActionLive(s, tr, det) ==
  LET directive == Parse(s.attr[tr])
  IN IF ~directive.ok THEN [s |-> s, found |-> tr \in DOMAIN s.cache]
     ELSE LET fresh == [selector |-> directive.selector,
                        className |-> directive.className,
                        outsideReset |-> directive.outsideReset,
                        target |-> NoNode]
              s1 == Resolved([s EXCEPT !.cache = Put(@, tr, fresh)], tr, det)
          IN [s |-> s1, found |-> TRUE]

\* SetStateController._getOrCreateAction
getOrCreateAction(s, tr, det) ==
  IF tr \in DOMAIN s.cache THEN [s |-> s, found |-> TRUE]
  ELSE LET directive == Parse(s.attr[tr])
       IN IF ~directive.ok THEN [s |-> s, found |-> FALSE]
          ELSE LET fresh == [selector |-> directive.selector,
                             className |-> directive.className,
                             outsideReset |-> directive.outsideReset,
                             target |-> NoNode]
                   s1 == Resolved([s EXCEPT !.cache = Put(@, tr, fresh)], tr, det)
                   tgt == s1.cache[tr].target
                   s2 == [s1 EXCEPT !.byTarget = Put(@, tgt, Get(@, tgt) \cup {tr})]
               IN IF tgt = NoNode THEN [s |-> s1, found |-> TRUE]
                  ELSE IF fresh.outsideReset /\ isApplied(s2, tr)
                  THEN [s |-> [s2 EXCEPT !.active = @ \cup {tgt}], found |-> TRUE]
                  ELSE [s |-> s2, found |-> TRUE]

\* for (const action of actions) action.reset().  The resets commute: each
\* removes its own class from its own resolved target and the document does
\* not change meanwhile.
RECURSIVE resetAll(_, _, _)
resetAll(s, actions, det) ==
  IF actions = {} THEN s
  ELSE LET tr == CHOOSE x \in actions : TRUE
       IN resetAll(reset(s, tr, det), actions \ {tr}, det)

\* SetStateController._resetByTarget
resetByTarget(s, tgt, det) == resetAll(s, Get(s.byTarget, tgt), det)

\* _resetByTarget(t); this._outsideActive.delete(t)
resetAndDisarm(s, t, det) ==
  [resetByTarget(s, t, det) EXCEPT !.active = @ \ {t}]

\* for (const t of Array.from(this._outsideActive)) if (<t in hit>) { ... }
RECURSIVE resetEach(_, _, _)
resetEach(s, hit, det) ==
  IF hit = {} THEN s
  ELSE LET t == CHOOSE x \in hit : TRUE
       IN resetEach(resetAndDisarm(s, t, det), hit \ {t}, det)

\* A reset branch that resets every armed target, as an outside click would.
resetBranchEveryArmed(s, resetEl, det) ==
  resetEach(resetAndDisarm(s, resetEl, det), s.active, det)

\* _onDocClick, 2) Target self-reset
resetBranch(s, resetEl, det) ==
  LET s1 == resetAndDisarm(s, resetEl, det)
  IN resetEach(s1, {t \in s1.active : Contains(t, resetEl, det)}, det)

\* _onDocClick, 3) Outside reset
outsideBranch(s, targetNode, det) ==
  resetEach(s, {t \in s.active : t \notin s.suppress
                                  /\ ~Contains(t, targetNode, det)}, det)

TriggerOf(n, det) == Closest(n, Triggers, det)

ResetElOf(n, det) == Closest(n, ResetEls, det)

triggerBranchFallThrough(s, trigger, det) ==
  LET g == getOrCreateAction(s, trigger, det)
  IN IF ~g.found
     THEN IF ResetElOf(trigger, det) # NoNode
          THEN resetBranch(g.s, ResetElOf(trigger, det), det)
          ELSE outsideBranch(g.s, trigger, det)
     ELSE LET ap == apply(g.s, trigger, det)
              action == ap.s.cache[trigger]
              tgt == action.target
          IN IF ap.ok /\ action.outsideReset /\ tgt # NoNode
             THEN [ap.s EXCEPT !.active = @ \cup {tgt},
                               !.suppress = @ \cup {tgt},
                               !.timers = Append(@, tgt)]
             ELSE ap.s

\* The trigger branch as a toggle: gated on isApplied(), a second click
\* resets and disarms the target.
triggerBranchGated(s, trigger, det) ==
  LET g == getOrCreateAction(s, trigger, det)
  IN IF ~g.found THEN g.s
     ELSE LET s1 == Resolved(g.s, trigger, det)
              tgt == s1.cache[trigger].target
          IN IF isApplied(s1, trigger)
             THEN [reset(s1, trigger, det) EXCEPT !.active = @ \ {tgt}]
             ELSE LET ap == apply(s1, trigger, det)
                      action == ap.s.cache[trigger]
                  IN IF ap.ok /\ action.outsideReset
                     THEN [ap.s EXCEPT !.active = @ \cup {tgt},
                                       !.suppress = @ \cup {tgt},
                                       !.timers = Append(@, tgt)]
                     ELSE ap.s

\* The trigger branch without setTimeout: the target is suppressed and no
\* callback is scheduled.
triggerBranchNoTimer(s, trigger, det) ==
  LET g == getOrCreateAction(s, trigger, det)
  IN IF ~g.found THEN g.s
     ELSE LET ap == apply(g.s, trigger, det)
              action == ap.s.cache[trigger]
              tgt == action.target
          IN IF ap.ok /\ action.outsideReset /\ tgt # NoNode
             THEN [ap.s EXCEPT !.active = @ \cup {tgt},
                               !.suppress = @ \cup {tgt}]
             ELSE ap.s

\* _onDocClick, 1) Trigger
triggerBranch(s, trigger, det) ==
  LET g == getOrCreateAction(s, trigger, det)
  IN IF ~g.found THEN g.s
     ELSE LET ap == apply(g.s, trigger, det)
              action == ap.s.cache[trigger]
              tgt == action.target
          IN IF ap.ok /\ action.outsideReset /\ tgt # NoNode
             THEN [ap.s EXCEPT !.active = @ \cup {tgt},
                               !.suppress = @ \cup {tgt},
                               !.timers = Append(@, tgt)]
             ELSE ap.s

\* The branch of _onDocClick a click on n takes.
BranchOf(n, det) ==
  IF TriggerOf(n, det) # NoNode THEN "trigger"
  ELSE IF ResetElOf(n, det) # NoNode THEN "reset"
  ELSE "outside"

\* SetStateController._onDocClick
onDocClick(s, targetNode, det) ==
  LET trigger == TriggerOf(targetNode, det)
      resetEl == ResetElOf(targetNode, det)
  IN IF trigger # NoNode THEN triggerBranch(s, trigger, det)
     ELSE IF resetEl # NoNode THEN resetBranch(s, resetEl, det)
     ELSE outsideBranch(s, targetNode, det)

\* At most this many zero-delay callbacks are pending at once.
MaxTimers == 2

SSState ==
  [classes |-> ssClasses, cache |-> actionCache, byTarget |-> byTarget,
   active |-> outsideActive, suppress |-> suppress, timers |-> timers,
   attr |-> ssAttr]

SSInit ==
  /\ \E c \in SUBSET ClassNames :
       ssClasses = [t \in SSTargets |-> IF t = "P1" THEN c ELSE {}]
  /\ ssDetached = Insertable
  /\ ssListening \in BOOLEAN
  /\ actionCache = EmptyMap
  /\ byTarget = EmptyMap
  /\ outsideActive = {}
  /\ suppress = {}
  /\ timers = <<>>
  /\ ssAttr = SetStateAttr
  /\ ssFirstAttr = EmptyMap
  /\ ssLast = [kind |-> "none", node |-> NoNode, pre |-> SSState]

SSIdle ==
  /\ ssClasses = EmptyMap
  /\ ssDetached = {}
  /\ ssListening = FALSE
  /\ actionCache = EmptyMap
  /\ byTarget = EmptyMap
  /\ outsideActive = {}
  /\ suppress = {}
  /\ timers = <<>>
  /\ ssAttr = EmptyMap
  /\ ssFirstAttr = EmptyMap
  /\ ssLast = [kind |-> "none", node |-> NoNode, pre |-> EmptyMap]

Install(s) ==
  /\ ssClasses' = s.classes
  /\ actionCache' = s.cache
  /\ byTarget' = s.byTarget
  /\ outsideActive' = s.active
  /\ suppress' = s.suppress
  /\ timers' = s.timers

\* SetStateController.init
SSInitListener ==
  /\ ~ssListening
  /\ ssListening' = TRUE
  /\ ssLast' = [kind |-> "init", node |-> NoNode, pre |-> SSState]
  /\ UNCHANGED <<ssClasses, ssDetached, actionCache, byTarget, outsideActive,
                 suppress, timers>>

\* destroy() without this._outsideActive.clear()
SSDestroyKeepArmed ==
  /\ ssListening
  /\ ssListening' = FALSE
  /\ actionCache' = EmptyMap
  /\ byTarget' = EmptyMap
  /\ suppress' = {}
  /\ ssLast' = [kind |-> "destroy", node |-> NoNode, pre |-> SSState]
  /\ UNCHANGED <<ssClasses, ssDetached, timers, outsideActive>>

\* SetStateController.destroy
SSDestroy ==
  /\ ssListening
  /\ ssListening' = FALSE
  /\ actionCache' = EmptyMap
  /\ byTarget' = EmptyMap
  /\ outsideActive' = {}
  /\ suppress' = {}
  /\ ssLast' = [kind |-> "destroy", node |-> NoNode, pre |-> SSState]
  /\ UNCHANGED <<ssClasses, ssDetached, timers>>

\* A click on a node of the document: _onDocClick runs if init() has
\* registered it and destroy() has not removed it since.
Click(n) ==
  /\ InDoc(n, ssDetached)
  /\ LET s == IF ssListening THEN onDocClick(SSState, n, ssDetached)
              ELSE SSState
     IN /\ Len(s.timers) <= MaxTimers
        /\ Install(s)
  /\ ssLast' = [kind |-> "click", node |-> n, pre |-> SSState]
  /\ UNCHANGED <<ssDetached, ssListening>>

\* The oldest pending callback: () => this._suppressOutsideOnce.delete(tgt)
TimerFire ==
  /\ timers # <<>>
  /\ suppress' = suppress \ {Head(timers)}
  /\ timers' = Tail(timers)
  /\ ssLast' = [kind |-> "timer", node |-> Head(timers), pre |-> SSState]
  /\ UNCHANGED <<ssClasses, ssDetached, ssListening, actionCache, byTarget,
                 outsideActive>>

\* Another script removes a node from the document.
Detach(n) ==
  /\ n \in Removable \ ssDetached
  /\ ssDetached' = ssDetached \cup {n}
  /\ ssLast' = [kind |-> "detach", node |-> n, pre |-> SSState]
  /\ UNCHANGED <<ssClasses, ssListening, actionCache, byTarget, outsideActive,
                 suppress, timers>>

\* Another script inserts a node into the document.
Attach(n) ==
  /\ n \in Insertable \cap ssDetached
  /\ ssDetached' = ssDetached \ {n}
  /\ ssLast' = [kind |-> "attach", node |-> n, pre |-> SSState]
  /\ UNCHANGED <<ssClasses, ssListening, actionCache, byTarget, outsideActive,
                 suppress, timers>>

\* The values another script gives to a data-set-state attribute: "" and
\* "#q,_x,true".
AttrChoices == {<<"">>, <<"#q", "_x", "true">>}

\* The triggers whose attribute is rewritten.
MutableTriggers == {"t2", "t4"}

\* Another script calls tr.setAttribute("data-set-state", v).
SetAttribute(tr, v) ==
  /\ ssAttr[tr] # v
  /\ ssAttr' = [ssAttr EXCEPT ![tr] = v]
  /\ ssLast' = [kind |-> "attr", node |-> tr, pre |-> SSState]
  /\ UNCHANGED <<ssClasses, ssDetached, ssListening, actionCache, byTarget,
                 outsideActive, suppress, timers, ssFirstAttr>>

\* Click(n), with the attribute of a trigger recorded at its first click.
ClickRecorded(n) ==
  /\ Click(n)
  /\ LET tr == TriggerOf(n, ssDetached)
     IN ssFirstAttr' =
          IF tr # NoNode /\ tr \notin DOMAIN ssFirstAttr
          THEN Put(ssFirstAttr, tr, ssAttr[tr])
          ELSE ssFirstAttr
  /\ UNCHANGED ssAttr

(***************************************************************************)
(* Attribute strings and the rule parsers                                  *)
(*                                                                         *)
(* A string is the sequence of its lexemes: a lexeme is one separator      *)
(* character (":", ";", ",") or a maximal run of other characters (an      *)
(* atom).  No two atoms are adjacent, so equal strings have equal          *)
(* sequences; "a:b" is <<"a", ":", "b">> and "" is <<>>.                   *)
(***************************************************************************)

Separators == {":", ";", ","}

\* No two atoms side by side.
NormalForm(str) ==
  \A i \in 1 .. Len(str) - 1 :
     str[i] \in Separators \/ str[i + 1] \in Separators

\* The value JavaScript calls undefined; no string has this lexeme.
Undefined == <<"undefined">>

\* The first position of lexeme c in str, 0 when there is none.
FirstPos(str, c) ==
  IF \E i \in 1 .. Len(str) : str[i] = c
  THEN CHOOSE i \in 1 .. Len(str) :
         str[i] = c /\ \A j \in 1 .. i - 1 : str[j] # c
  ELSE 0

\* String.prototype.split(sep) for a one-character separator.
RECURSIVE SplitOn(_, _)
SplitOn(str, sep) ==
  LET i == FirstPos(str, sep)
  IN IF i = 0 THEN <<str>>
     ELSE <<SubSeq(str, 1, i - 1)>> \o SplitOn(SubSeq(str, i + 1, Len(str)), sep)

\* A string without separators as a property key or a field: "" or its atom.
AtomOf(str) == IF str = <<>> THEN "" ELSE str[1]

\* p.slice(0, -1) on the atoms that occur in data-switch attributes.
DropLastChar ==
  [a \in {"target", "class", "action", "lock", "_x", "off", "true", "#a"} |->
     CASE a = "target" -> "targe"
       [] a = "class" -> "clas"
       [] a = "action" -> "actio"
       [] a = "lock" -> "loc"
       [] a = "_x" -> "_"
       [] a = "off" -> "of"
       [] a = "true" -> "tru"
       [] a = "#a" -> "#"]

\* Object.fromEntries: a later entry with the same key replaces an earlier one.
RECURSIVE fromEntries(_, _, _)
fromEntries(entries, i, obj) ==
  IF i > Len(entries) THEN obj
  ELSE fromEntries(entries, i + 1, Put(obj, entries[i][1], entries[i][2]))

\* obj.key: the value, or undefined when the object has no such property.
Prop(obj, key) == IF key \in DOMAIN obj THEN obj[key] ELSE Undefined

\* JavaScript truthiness of a property value: undefined and "" are falsy.
Truthy(v) == v # Undefined /\ v # <<>>

\* SwitchController's parseConfig: [p.slice(0, i), p.slice(i + 1)] with
\* i = p.indexOf(":"); without a ":" i is -1, the key is p less its last
\* character and the value is p.
switchEntry(p) ==
  LET i == FirstPos(p, ":")
  IN IF i = 0
     THEN <<(IF p = <<>> THEN "" ELSE DropLastChar[p[1]]), p>>
     ELSE <<AtomOf(SubSeq(p, 1, i - 1)), SubSeq(p, i + 1, Len(p))>>

parseConfigSwitch(str) ==
  LET segs == SplitOn(str, ";")
  IN fromEntries([j \in 1 .. Len(segs) |-> switchEntry(segs[j])], 1, EmptyMap)

\* The className default with ?? in place of ||: "" is kept.
createControllerRuleNullish(str) ==
  LET cfg == parseConfigSwitch(str)
  IN [target |-> Prop(cfg, "target"),
      className |-> IF Prop(cfg, "class") # Undefined THEN Prop(cfg, "class")
                    ELSE <<"_is-active">>,
      action |-> IF Prop(cfg, "action") = <<"off">> THEN "off" ELSE "on",
      lock |-> IF Prop(cfg, "lock") = <<"true">> THEN "true" ELSE "false"]

\* One rule of createControllerRules; target is the selector handed to
\* document.querySelector.
createControllerRule(str) ==
  LET cfg == parseConfigSwitch(str)
  IN [target |-> Prop(cfg, "target"),
      className |-> IF Truthy(Prop(cfg, "class")) THEN Prop(cfg, "class")
                    ELSE <<"_is-active">>,
      action |-> IF Prop(cfg, "action") = <<"off">> THEN "off" ELSE "on",
      lock |-> IF Prop(cfg, "lock") = <<"true">> THEN "true" ELSE "false"]

\* p.split(":") as an entry of Object.fromEntries: the first two items of
\* the array are the key and the value, a missing second item is undefined.
splitEntry(p) ==
  LET items == SplitOn(p, ":")
  IN <<AtomOf(items[1]), IF Len(items) >= 2 THEN items[2] ELSE Undefined>>

\* ToggleGroup's parseConfig
parseConfigToggle(str) ==
  LET segs == SplitOn(str, ";")
  IN fromEntries([j \in 1 .. Len(segs) |-> splitEntry(segs[j])], 1, EmptyMap)

\* One rule of ToggleGroup's createRules
createToggleRule(str) ==
  LET cfg == parseConfigToggle(str)
  IN [group |-> Prop(cfg, "group"),
      className |-> IF Truthy(Prop(cfg, "class")) THEN Prop(cfg, "class")
                    ELSE <<"_is-active">>]

\* BreakpointMover's parseConfig
parseConfigMove(str) ==
  LET segs == SplitOn(str, ";")
  IN fromEntries([j \in 1 .. Len(segs) |-> splitEntry(segs[j])], 1, EmptyMap)

\* "(max-width: 48em)"
DefaultQuery == <<"(max-width", ":", " 48em)">>

\* One rule of BreakpointMover's createRules; from and to are the selectors
\* handed to document.querySelector, query the string handed to matchMedia.
createMoveRule(str) ==
  LET cfg == parseConfigMove(str)
  IN [from |-> Prop(cfg, "from"),
      to |-> Prop(cfg, "to"),
      query |-> IF Truthy(Prop(cfg, "query")) THEN Prop(cfg, "query")
                ELSE DefaultQuery]

\* String.prototype.trim on the atoms that occur in data-set-state.
Trim(a) ==
  CASE a = " " -> ""
    [] a = " TRUE " -> "TRUE"
    [] OTHER -> a

\* raw.split(",").map((p) => p.trim())
SetStateFields(raw) ==
  LET parts == SplitOn(raw, ",")
  IN [j \in 1 .. Len(parts) |-> Trim(AtomOf(parts[j]))]

\* SetStateParser.parse on the raw attribute value.
ParseRaw(raw) ==
  IF raw = <<>> THEN [ok |-> FALSE] ELSE Parse(SetStateFields(raw))

\* The longest generated attribute value, in lexemes.
MaxLexemes == 4

\* The lexemes the generated values of each attribute are made of.
Alphabet(parser) ==
  CASE parser = "data-switch" ->
         {":", ";", "class", "action", "lock", "_x", "off", "true"}
    [] parser = "data-toggle" -> {":", ";", "group", "class", "g1", "_x"}
    [] parser = "data-move" ->
         {":", ";", "from", "to", "query", "#a", "(max-width", " 48em)"}
    [] parser = "data-set-state" -> {",", "#p", "_x", "true", " ", " TRUE "}

\* "target:#a;class:_x;action:off"
SwitchExample ==
  <<"target", ":", "#a", ";", "class", ":", "_x", ";", "action", ":", "off">>

\* "from:#a;to:#b;query:(max-width: 48em)"
MoveExample ==
  <<"from", ":", "#a", ";", "to", ":", "#b", ";",
    "query", ":", "(max-width", ":", " 48em)">>

\* "group:g1;class:_x"
ToggleExample == <<"group", ":", "g1", ";", "class", ":", "_x">>

\* "class:;action:true"
SwitchEmptyClass == <<"class", ":", ";", "action", ":", "true">>

\* "#p,,true" and "#p,_x,true"
SetStateExamples ==
  {<<"#p", ",", ",", "true">>, <<"#p", ",", "_x", ",", "true">>}

Examples(parser) ==
  CASE parser = "data-switch" -> {SwitchExample, SwitchEmptyClass}
    [] parser = "data-toggle" -> {ToggleExample}
    [] parser = "data-move" -> {MoveExample}
    [] parser = "data-set-state" -> SetStateExamples

\* The attribute values tried for a parser.
AttrValues(parser) ==
  Examples(parser) \cup
  UNION {{str \in [1 .. n -> Alphabet(parser)] : NormalForm(str)} :
           n \in 0 .. MaxLexemes}

ParseIdle == parsed = [parser |-> "none"]

\* A data-switch element is read by createControllerRules.
ReadSwitch(str) ==
  /\ ParseIdle
  /\ parsed' = [parser |-> "data-switch", input |-> str,
                cfg |-> parseConfigSwitch(str),
                rule |-> createControllerRule(str)]

\* A data-toggle element is read by ToggleGroup's createRules.
ReadToggle(str) ==
  /\ ParseIdle
  /\ parsed' = [parser |-> "data-toggle", input |-> str,
                cfg |-> parseConfigToggle(str),
                rule |-> createToggleRule(str)]

\* A data-move element is read by BreakpointMover's createRules.
ReadMove(str) ==
  /\ ParseIdle
  /\ parsed' = [parser |-> "data-move", input |-> str,
                cfg |-> parseConfigMove(str),
                rule |-> createMoveRule(str)]

\* A data-set-state attribute is parsed by SetStateParser.parse.
ReadSetState(raw) ==
  /\ ParseIdle
  /\ parsed' = [parser |-> "data-set-state", input |-> raw,
                rule |-> ParseRaw(raw)]

(***************************************************************************)
(* BreakpointMover and the DOMContentLoaded handler of main.js: the page   *)
(*                                                                         *)
(*   body                                                                  *)
(*    |- A   (matches #a)                                                  *)
(*    |- B   (matches #b)                                                  *)
(*    `- ... the data-move elements 1 .. NumMove, numbered in document     *)
(*           order, each at first a child of A, of B or of body            *)
(***************************************************************************)

NumMove == 2

MoveElements == 1 .. NumMove

Containers == {"A", "B"}

Places == <<"A", "B", "body">>

\* The media queries of the rules: "(max-width: 48em)" and
\* "(orientation: portrait)".
Queries == {"max-width", "portrait"}

\* The rules createRules can return for the page: querySelector(cfg.from)
\* is A or null, querySelector(cfg.to) is B or null.
MoveRules ==
  [element : MoveElements, from : {"A", NoNode}, to : {"B", NoNode},
   query : Queries]

\* ParentNode.append of a node that is already in the document, as if it
\* inserted a copy: the node stays in its old parent too.
appendCopy(children, parent, el) ==
  [children EXCEPT ![parent] = Append(@, el)]

\* ParentNode.append: the node leaves its parent and becomes the last child.
append(children, parent, el) ==
  LET removed == [c \in DOMAIN children |->
                    SelectSeq(children[c], LAMBDA x : x # el)]
  IN [removed EXCEPT ![parent] = Append(@, el)]

\* BreakpointMover.handle; threw: null.append raised a TypeError.
handle(rule, matches, children) ==
  LET dest == IF matches THEN rule.to ELSE rule.from
  IN IF dest = NoNode
     THEN [children |-> children, threw |-> TRUE]
     ELSE [children |-> append(children, dest, rule.element), threw |-> FALSE]

\* BreakpointMover.init from rule i on: forEach ends at the first exception.
RECURSIVE initFrom(_, _, _, _)
initFrom(rules, i, matches, st) ==
  IF i > Len(rules) THEN st
  ELSE LET h == handle(rules[i], matches[rules[i].query], st.children)
       IN IF h.threw
          THEN [st EXCEPT !.threw = TRUE]
          ELSE initFrom(rules, i + 1, matches,
                        [children |-> h.children,
                         subscribed |-> st.subscribed \cup {i},
                         threw |-> FALSE])

\* The "change" listeners of the subscribed rules of a query, in the order
\* of their subscription; an exception in one listener is reported and the
\* next listener still runs.
RECURSIVE dispatchChange(_, _, _, _, _, _)
dispatchChange(rules, subscribed, query, nowMatches, i, st) ==
  IF i > Len(rules) THEN st
  ELSE IF i \in subscribed /\ rules[i].query = query
       THEN LET h == handle(rules[i], nowMatches, st.children)
            IN dispatchChange(rules, subscribed, query, nowMatches, i + 1,
                              [children |-> h.children,
                               threw |-> st.threw \/ h.threw,
                               handled |-> st.handled \cup {i}])
       ELSE dispatchChange(rules, subscribed, query, nowMatches, i + 1, st)

\* Element i is at first a child of Places[place[i]]; document order makes
\* place nondecreasing.
MoverInit ==
  /\ \E r \in [MoveElements -> MoveRules] :
       /\ \A i \in MoveElements : r[i].element = i
       /\ bmRules = r
  /\ \E place \in [MoveElements -> 1 .. 3] :
       /\ \A i, j \in MoveElements : i < j => place[i] <= place[j]
       /\ bmChildren =
            [c \in {"A", "B", "body"} |->
               SelectSeq([i \in MoveElements |-> i],
                         LAMBDA i : Places[place[i]] = c)]
  /\ mqMatches \in [Queries -> BOOLEAN]
  /\ bmSubscribed = {}
  /\ domLoaded = FALSE
  /\ belowTriggers = FALSE
  /\ bmLast = [op |-> "none", threw |-> FALSE, handled |-> {}]

MoverIdle ==
  /\ bmRules = <<>>
  /\ bmChildren = <<>>
  /\ mqMatches = <<>>
  /\ bmSubscribed = {}
  /\ domLoaded = FALSE
  /\ belowTriggers = FALSE
  /\ bmLast = [op |-> "none", threw |-> FALSE, handled |-> {}]

\* The DOMContentLoaded handler of main.js: new BreakpointMover(
\* createRules()).init(), then the registration of the triggers of
\* loadBelowFold; an exception leaves the handler at once.
DOMContentLoaded ==
  /\ ~domLoaded
  /\ domLoaded' = TRUE
  /\ LET st == initFrom(bmRules, 1, mqMatches,
                        [children |-> bmChildren, subscribed |-> {},
                         threw |-> FALSE])
     IN /\ bmChildren' = st.children
        /\ bmSubscribed' = st.subscribed
        /\ belowTriggers' = ~st.threw
        /\ bmLast' = [op |-> "init", threw |-> st.threw,
                      handled |-> st.subscribed]
  /\ UNCHANGED <<bmRules, mqMatches>>

\* The viewport changes so that a query's result flips; the browser then
\* notifies the listeners of the media query lists of that query.
MqChange(q) ==
  /\ mqMatches' = [mqMatches EXCEPT ![q] = ~@]
  /\ LET st == dispatchChange(bmRules, bmSubscribed, q, ~mqMatches[q], 1,
                              [children |-> bmChildren, threw |-> FALSE,
                               handled |-> {}])
     IN /\ bmChildren' = st.children
        /\ bmLast' = [op |-> "change", threw |-> st.threw,
                      handled |-> st.handled]
  /\ UNCHANGED <<bmRules, bmSubscribed, domLoaded, belowTriggers>>

(***************************************************************************)
(* NavMenu (components/Slider.js) with the helpers of utils.js.  The items *)
(* of the menu are numbered; only the active class of an item is kept,     *)
(* the submenu animation changes no class.                                 *)
(***************************************************************************)

NumNavItems == 3
NavItems == 1..NumNavItems
NoItem == 0          \* no element matches the selector (closest() is null)
NavKeys == {"Escape", "Enter"}

\* A setExclusiveActive that only adds the class.
setExclusiveActiveAddOnly(items, target, classes) ==
  classes \cup ({target} \cap items)

\* U.setExclusiveActive(items, target, className), on the set of items
\* that carry the class.
setExclusiveActive(items, target, classes) ==
  (classes \ items) \cup ({target} \cap items)

\* The event listeners _setupDesktop and _setupMobile register, by event
\* type; "mq" is the change listener of U.mediaQuery.
setupListeners(mode, opts) ==
  IF mode = "desktop"
  THEN {"mouseover"} \cup (IF opts.clearOnLeave THEN {"mouseout"} ELSE {})
  ELSE {"click"} \cup (IF opts.escToClear THEN {"keydown"} ELSE {})

\* NavMenu._teardown(): every unsubscribe function of _unsubs is called.
teardown(nav) == [nav EXCEPT !.listeners = @ \cap {"mq"}]

\* A _switchMode that leaves the items as they are.
switchModeKeepActive(nav, opts, mode) ==
  IF nav.mode = mode THEN nav
  ELSE [teardown(nav) EXCEPT
          !.mode = mode,
          !.listeners = @ \cup setupListeners(mode, opts)]

\* NavMenu._switchMode(mode): teardown, setup, all items cleared.
switchMode(nav, opts, mode) ==
  IF nav.mode = mode THEN nav
  ELSE [teardown(nav) EXCEPT
          !.mode = mode,
          !.listeners = @ \cup setupListeners(mode, opts),
          !.classes = @ \ NavItems,
          !.current = NoItem]

\* The delegated mouseover handler of _setupDesktop; item is the element
\* matched by the delegate, NoItem when the delegate finds none.
onMouseOver(nav, item) ==
  IF item = NoItem \/ nav.current = item THEN nav
  ELSE [nav EXCEPT !.current = item,
                   !.classes = setExclusiveActive(NavItems, item, nav.classes)]

\* The mouseout handler of _setupDesktop.
onLeave(nav, relatedInside) ==
  IF ~relatedInside
  THEN [nav EXCEPT !.classes = nav.classes \ NavItems, !.current = NoItem]
  ELSE nav

\* A mobile click handler that only flips the class of the clicked item.
onBtnClickKeepOthers(nav, item) ==
  IF item = NoItem THEN nav
  ELSE [nav EXCEPT !.classes = IF item \in nav.classes
                                THEN nav.classes \ {item}
                                ELSE nav.classes \cup {item}]

\* The delegated click handler of _setupMobile; item is the closest item
\* of the clicked button, NoItem when the button is in no item.
onBtnClick(nav, item) ==
  IF item = NoItem THEN nav
  ELSE LET willActivate == item \notin nav.classes
           cleared == nav.classes \ NavItems
       IN  [nav EXCEPT !.classes = IF willActivate THEN cleared \cup {item}
                                   ELSE cleared]

\* The document keydown handler of _setupMobile.
onKey(nav, key) ==
  IF key = "Escape" THEN [nav EXCEPT !.classes = nav.classes \ NavItems]
  ELSE nav

\* NavMenu.destroy(): _teardown() and _mqCtl.destroy().
navDestroy(nav) == [teardown(nav) EXCEPT !.listeners = @ \ {"mq"}]

NavModeOf(matches) == IF matches THEN "desktop" ELSE "mobile"

\* The handler runs when a listener for the event type is attached.
Dispatch(type, handled) ==
  IF type \in navMenu.listeners THEN handled ELSE navMenu

NavStep(op, item, inside, key) ==
  [op |-> op, item |-> item, inside |-> inside, key |-> key, pre |-> navMenu]

\* new NavMenu(root, opts): U.mediaQuery subscribes and calls _switchMode
\* at once, on a markup whose items may carry the active class.
NavInit ==
  /\ navOpts \in [clearOnLeave : BOOLEAN, escToClear : BOOLEAN]
  /\ \E markup \in SUBSET NavItems, matches \in BOOLEAN :
       navMenu = switchMode([mode |-> "null", classes |-> markup,
                             current |-> NoItem, listeners |-> {"mq"}],
                            navOpts, NavModeOf(matches))
  /\ navLast = [op |-> "none", item |-> NoItem, inside |-> TRUE,
                key |-> "", pre |-> navMenu]

NavIdle ==
  /\ navOpts = [clearOnLeave |-> FALSE, escToClear |-> FALSE]
  /\ navMenu = [mode |-> "null", classes |-> {}, current |-> NoItem,
                listeners |-> {}]
  /\ navLast = [op |-> "none", item |-> NoItem, inside |-> TRUE,
                key |-> "", pre |-> navMenu]

MouseOver(item) ==
  /\ navMenu' = Dispatch("mouseover", onMouseOver(navMenu, item))
  /\ navLast' = NavStep("mouseover", item, TRUE, "")
  /\ UNCHANGED navOpts

MouseOut(relatedInside) ==
  /\ navMenu' = Dispatch("mouseout", onLeave(navMenu, relatedInside))
  /\ navLast' = NavStep("mouseout", NoItem, relatedInside, "")
  /\ UNCHANGED navOpts

BtnClick(item) ==
  /\ navMenu' = Dispatch("click", onBtnClick(navMenu, item))
  /\ navLast' = NavStep("click", item, TRUE, "")
  /\ UNCHANGED navOpts

KeyDown(key) ==
  /\ navMenu' = Dispatch("keydown", onKey(navMenu, key))
  /\ navLast' = NavStep("keydown", NoItem, TRUE, key)
  /\ UNCHANGED navOpts

\* A "change" notification of the media query list reporting matches; the
\* step records the mode it reports.
NavMqChange(matches) ==
  /\ navMenu' = Dispatch("mq", switchMode(navMenu, navOpts, NavModeOf(matches)))
  /\ navLast' = NavStep("mq", NoItem, TRUE, NavModeOf(matches))
  /\ UNCHANGED navOpts

NavDestroy ==
  /\ navMenu' = navDestroy(navMenu)
  /\ navLast' = NavStep("destroy", NoItem, TRUE, "")
  /\ UNCHANGED navOpts

(***************************************************************************)
(* AccessibleSelect (components/AccessibleSelect.js).  Options are numbered *)
(* from 0 as in this.options and have distinct values; strings are         *)
(* sequences of lexemes, the value separator being one lexeme.             *)
(***************************************************************************)

NumOptions == 2
OptionIndexes == 0..(NumOptions - 1)
OptionValue(i) == ToString(i)      \* opts.getOptionValue(this.options[i])
valueSeparator == ", "
AriaValues == {"true", "false"}

\* Array.prototype.join(valueSeparator)
RECURSIVE Join(_)
Join(values) ==
  IF values = <<>> THEN <<>>
  ELSE IF Len(values) = 1 THEN <<values[1]>>
  ELSE <<values[1], valueSeparator>> \o Join(Tail(values))

\* Set.prototype.has / add / delete on a Set kept in insertion order.
SetHas(set, v) == \E k \in 1..Len(set) : set[k] = v
SetAdd(set, v) == IF SetHas(set, v) THEN set ELSE Append(set, v)
SetDelete(set, v) == SelectSeq(set, LAMBDA x : x # v)

RECURSIVE SetAddAll(_, _)
SetAddAll(set, values) ==
  IF values = <<>> THEN set
  ELSE SetAddAll(SetAdd(set, Head(values)), Tail(values))

\* A registration that ignores what is registered already.
addEventListenerAgain(n) == n + 1

\* document.addEventListener(type, callback, true) on the number of
\* registrations of the callback: the same callback with the same capture
\* flag is registered once.
addEventListener(n) == IF n = 0 THEN 1 ELSE n

removeEventListener(n) == 0

open(view, opts) ==
  IF ~opts.hasBtn THEN view
  ELSE [active |-> TRUE, expanded |-> "true",
        pointerdown |-> addEventListener(view.pointerdown),
        keydown |-> addEventListener(view.keydown)]

close(view, opts) ==
  IF ~opts.hasBtn THEN view
  ELSE [active |-> FALSE, expanded |-> "false",
        pointerdown |-> removeEventListener(view.pointerdown),
        keydown |-> removeEventListener(view.keydown)]

toggle(view, opts) ==
  IF view.active THEN close(view, opts) ELSE open(view, opts)

\* _commitValue()
commitValue(data, opts) ==
  IF opts.hasInput THEN [data EXCEPT !.input = Join(data.selected)] ELSE data

\* clear()
clear(data, opts) ==
  commitValue([data EXCEPT !.selected = <<>>,
                           !.aria = [o \in OptionIndexes |-> "false"]], opts)

\* A choose(index) that toggles the value in single mode too.
chooseAlwaysToggle(data, opts, index) ==
  IF index < 0 \/ index >= NumOptions THEN data
  ELSE LET val == OptionValue(index)
           sel == IF SetHas(data.selected, val) THEN SetDelete(data.selected, val)
                  ELSE SetAdd(data.selected, val)
       IN commitValue(
            [data EXCEPT
               !.selected = sel,
               !.aria = [data.aria EXCEPT ![index] =
                           IF SetHas(sel, val) THEN "true" ELSE "false"]], opts)

\* choose(index), up to the closing of the select.
choose(data, opts, index) ==
  IF index < 0 \/ index >= NumOptions THEN data
  ELSE LET val == OptionValue(index)
           isSelected == SetHas(data.selected, val)
       IN commitValue(
            IF opts.multiple
            THEN LET sel == IF isSelected THEN SetDelete(data.selected, val)
                            ELSE SetAdd(data.selected, val)
                 IN [data EXCEPT
                       !.selected = sel,
                       !.aria = [data.aria EXCEPT ![index] =
                                   IF SetHas(sel, val) THEN "true" ELSE "false"]]
            ELSE [data EXCEPT
                    !.selected = <<val>>,
                    !.aria = [o \in OptionIndexes |->
                                IF o = index THEN "true" ELSE "false"]], opts)

\* _restoreFromInput(): the input value split at the separator; the
\* options are marked only when the value is not empty.
restoreFromInput(raw, markup) ==
  IF raw = <<>> THEN [selected |-> <<>>, aria |-> markup, input |-> raw]
  ELSE LET vals == FilterBoolean(
                     [k \in 1..Len(SplitOn(raw, valueSeparator)) |->
                        AtomOf(SplitOn(raw, valueSeparator)[k])])
           sel == SetAddAll(<<>>, vals)
       IN [selected |-> sel,
           aria |-> [o \in OptionIndexes |->
                       IF SetHas(sel, OptionValue(o)) THEN "true" ELSE "false"],
           input |-> raw]

\* The values a hidden input holds in the markup: empty, or some option
\* values joined with the separator.
InputMarkup ==
  {<<>>} \cup {Join(<<OptionValue(o)>>) : o \in OptionIndexes}
         \cup UNION {{Join(<<OptionValue(o), OptionValue(p)>>) :
                        p \in OptionIndexes \ {o}} : o \in OptionIndexes}

SelStep(op, index) ==
  [op |-> op, index |-> index, pre |-> [view |-> selView, data |-> selData]]

\* new AccessibleSelect(fieldset, options): _setupAria sets aria-expanded
\* on the button, _restoreFromInput reads the hidden input; the class of
\* the root and the aria-selected of the options come from the markup.
SelectInit ==
  /\ selOpts \in {o \in [hasBtn : BOOLEAN, hasInput : BOOLEAN,
                         multiple : BOOLEAN, closeOnSelect : BOOLEAN] :
                    ~o.multiple => o.closeOnSelect}
  /\ \E rootActive \in BOOLEAN :
       selView = [active |-> rootActive,
                  expanded |-> IF selOpts.hasBtn THEN "false" ELSE "",
                  pointerdown |-> 0, keydown |-> 0]
  /\ \E raw \in InputMarkup, markup \in [OptionIndexes -> AriaValues] :
       selData = restoreFromInput(IF selOpts.hasInput THEN raw ELSE <<>>, markup)
  \* without a button the first _render() ends the constructor with a
  \* TypeError unless a restored value gives it a label
  /\ selOpts.hasBtn \/ selData.selected # <<>>
  /\ selLast = [op |-> "none", index |-> -1,
                pre |-> [view |-> selView, data |-> selData]]

SelectIdle ==
  /\ selOpts = [hasBtn |-> FALSE, hasInput |-> FALSE,
                multiple |-> FALSE, closeOnSelect |-> FALSE]
  /\ selView = [active |-> FALSE, expanded |-> "", pointerdown |-> 0,
                keydown |-> 0]
  /\ selData = [selected |-> <<>>, aria |-> [o \in OptionIndexes |-> "false"],
                input |-> <<>>]
  /\ selLast = [op |-> "none", index |-> -1,
                pre |-> [view |-> selView, data |-> selData]]

Open ==
  /\ selView' = open(selView, selOpts)
  /\ selLast' = SelStep("open", -1)
  /\ UNCHANGED <<selData, selOpts>>

Close ==
  /\ selView' = close(selView, selOpts)
  /\ selLast' = SelStep("close", -1)
  /\ UNCHANGED <<selData, selOpts>>

SelectToggle ==
  /\ selView' = toggle(selView, selOpts)
  /\ selLast' = SelStep("toggle", -1)
  /\ UNCHANGED <<selData, selOpts>>

Choose(index) ==
  /\ selData' = choose(selData, selOpts, index)
  /\ selView' = IF index >= 0 /\ index < NumOptions /\ selOpts.closeOnSelect
                THEN close(selView, selOpts) ELSE selView
  /\ selLast' = SelStep("choose", index)
  /\ UNCHANGED selOpts

Clear ==
  /\ selData' = clear(selData, selOpts)
  /\ selLast' = SelStep("clear", -1)
  /\ UNCHANGED <<selView, selOpts>>

(***************************************************************************)
(* FileInputController with FileValidator and FileFieldView                *)
(* (components/FileInputController.js).  Sizes are counted in units of the *)
(* limit read from data-file-size.                                         *)
(***************************************************************************)

FileNames == {"a.pdf", "b.png", "c.zip"}
MaxFileBytes == 2
FileSizes == 1..(MaxFileBytes + 1)
PickableFiles == [name : FileNames, size : FileSizes]
\* data-placeholder of the field in the markup ("" when there is none)
MarkupPlaceholders == {"Attach a project", ""}
SizeMessage == "File exceeds limit (2 MB)."

\* FileValidator.maxSize(maxBytes).validate(file)
validate(file) == file.size <= MaxFileBytes

\* FileFieldView.clearVisual(): the placeholder setter is given what the
\* data-placeholder attribute holds at that moment.
clearVisual(view) ==
  LET current == view.placeholder
  IN [view EXCEPT !.placeholder = current]

markValid(view) == [view EXCEPT !.invalid = FALSE, !.error = ""]
markInvalid(view, message) == [view EXCEPT !.invalid = TRUE, !.error = message]

\* FileInputController.onInputClear(): the view and the event dispatched.
onInputClear(view, files) ==
  IF files = <<>>
  THEN [view |-> clearVisual(view), event |-> "fileinput:clear"]
  ELSE [view |-> view, event |-> "none"]

\* FileInputController.onChange(): the view and the event dispatched.
onChange(view, files) ==
  IF files = <<>>
  THEN [view |-> clearVisual(view), event |-> "fileinput:clear"]
  ELSE LET file == files[1]
       IN IF validate(file)
          THEN [view |-> markValid([view EXCEPT !.placeholder = file.name]),
                event |-> "fileinput:valid"]
          ELSE [view |-> markInvalid(view, SizeMessage),
                event |-> "fileinput:invalid"]

FileStep(op, event) == [op |-> op, event |-> event, pre |-> fiView]

\* new FileInputController(labelEl) on a label with a field and an empty
\* file input.
FileInit ==
  /\ fiOriginal \in MarkupPlaceholders
  /\ fiView = [placeholder |-> fiOriginal, invalid |-> FALSE, error |-> ""]
  /\ fiFiles = <<>>
  /\ fiLast = [op |-> "none", event |-> "none", pre |-> fiView]

FileIdle ==
  /\ fiOriginal = ""
  /\ fiView = [placeholder |-> "", invalid |-> FALSE, error |-> ""]
  /\ fiFiles = <<>>
  /\ fiLast = [op |-> "none", event |-> "none", pre |-> fiView]

\* The user leaves the picker with a new selection (none when the picker
\* is cancelled): the "change" event of the input.
Change(files) ==
  /\ files # fiFiles
  /\ fiFiles' = files
  /\ fiView' = onChange(fiView, files).view
  /\ fiLast' = FileStep("change", onChange(fiView, files).event)
  /\ UNCHANGED fiOriginal

\* A click on the input opens the picker: the capturing "click" listener.
ClickInput ==
  /\ fiView' = onInputClear(fiView, fiFiles).view
  /\ fiLast' = FileStep("click", onInputClear(fiView, fiFiles).event)
  /\ UNCHANGED <<fiFiles, fiOriginal>>

\* The form is reset: the input loses its files and no "change" is fired.
FormReset ==
  /\ fiFiles # <<>>
  /\ fiFiles' = <<>>
  /\ fiLast' = FileStep("reset", "none")
  /\ UNCHANGED <<fiView, fiOriginal>>

(***************************************************************************)
(* loadBelowFold and its triggers (main.js).  The triggers exist once the  *)
(* DOMContentLoaded handler has registered them (belowTriggers).           *)
(***************************************************************************)

OnceEvents == {"scroll", "mousemove", "touchstart", "pointerdown", "keydown"}

\* What the DOMContentLoaded handler sets up: belowLoaded = false, the
\* window "load" listener, the five once-listeners and the 8000 ms timer.
BelowFresh ==
  [belowLoaded |-> FALSE, imports |-> 0, result |-> "none",
   load |-> "waiting", once |-> OnceEvents, timer8000 |-> TRUE]

\* A loadBelowFold without the belowLoaded guard.
loadBelowFoldUnguarded(bf) ==
  [bf EXCEPT !.belowLoaded = TRUE, !.imports = @ + 1, !.result = "pending"]

\* loadBelowFold(): imports counts the import("./below-fold.js") started.
loadBelowFold(bf) ==
  IF bf.belowLoaded THEN bf
  ELSE [bf EXCEPT !.belowLoaded = TRUE, !.imports = @ + 1,
                  !.result = "pending"]

BelowIdle == belowFold = BelowFresh

\* The window "load" event: the listener schedules loadBelowFold with
\* requestIdleCallback where the browser has it, else with a 1200 ms timer.
WindowLoad(hasIdleCallback) ==
  /\ belowTriggers /\ belowFold.load = "waiting"
  /\ belowFold' = [belowFold EXCEPT
                     !.load = IF hasIdleCallback THEN "idle" ELSE "timer"]

\* The idle callback or the 1200 ms timer runs.
LoadCallback ==
  /\ belowTriggers /\ belowFold.load \in {"idle", "timer"}
  /\ belowFold' = loadBelowFold([belowFold EXCEPT !.load = "ran"])

\* The first event of a type on window: its listener is removed ({once:
\* true}) and loadBelowFold runs.
UserEvent(ev) ==
  /\ belowTriggers /\ ev \in belowFold.once
  /\ belowFold' = loadBelowFold([belowFold EXCEPT !.once = @ \ {ev}])

\* A timer that expires without calling loadBelowFold.
Timer8000Lost ==
  /\ belowTriggers /\ belowFold.timer8000
  /\ belowFold' = [belowFold EXCEPT !.timer8000 = FALSE]

\* setTimeout(loadBelowFold, 8000) expires.
Timer8000 ==
  /\ belowTriggers /\ belowFold.timer8000
  /\ belowFold' = loadBelowFold([belowFold EXCEPT !.timer8000 = FALSE])

\* The promise of import() settles; a rejection is caught and logged.
ImportSettles(ok) ==
  /\ belowFold.result = "pending"
  /\ belowFold' = [belowFold EXCEPT
                     !.result = IF ok THEN "loaded" ELSE "failed"]

(***************************************************************************)
(* LazyVideo with its activation strategies                                *)
(* (components/LazyVideoManager.js), one instance after mount().           *)
(***************************************************************************)

InteractionEvents == {"pointerenter", "click", "touchstart"}

\* What strategy.attach() subscribes to, by mode: the three listeners, the
\* IntersectionObserver ("io"), or nothing in manual mode.
attach(mode) ==
  IF mode = "interaction" THEN InteractionEvents
  ELSE IF mode = "viewport" THEN {"io"}
  ELSE {}

\* An activate() that does not look at the activated flag.
activateUnguarded(v) ==
  LET changed == v.hasData
      s == [v EXCEPT !.activated = TRUE,
                     !.moved = @ + (IF changed THEN 1 ELSE 0),
                     !.hasData = FALSE]
  IN [s EXCEPT !.loads = @ + 1, !.phase = "awaitLoad"]

\* LazyVideo.activate() up to its first await: moved counts the calls of
\* loadSources that set a src, loads the calls of video.load(), plays the
\* calls of video.play().
activate(v) ==
  IF v.activated THEN v
  ELSE LET changed == v.hasData
           s == [v EXCEPT !.activated = TRUE,
                          !.moved = @ + (IF changed THEN 1 ELSE 0),
                          !.hasData = FALSE]
       IN IF changed \/ ~v.ready
          THEN [s EXCEPT !.loads = @ + 1, !.phase = "awaitLoad"]
          ELSE IF v.autoplay
          THEN [s EXCEPT !.plays = @ + 1, !.phase = "awaitPlay"]
          ELSE [s EXCEPT !.phase = "done"]

\* The rest of activate() after an await.
resume(v) ==
  IF v.phase = "awaitLoad" /\ v.autoplay
  THEN [v EXCEPT !.plays = @ + 1, !.phase = "awaitPlay"]
  ELSE [v EXCEPT !.phase = "done"]

LvStep(op) == [op |-> op, pre |-> lazyVideo]

\* new LazyVideo(el, opts, loader, strategy).init() in mount(); hasData:
\* a source carries a data-src that is not its src; ready: the element has
\* loaded metadata and a currentSrc.
LazyInit ==
  /\ \E mode \in {"viewport", "interaction", "manual"},
        once \in BOOLEAN, autoplay \in BOOLEAN,
        hasData \in BOOLEAN, ready \in BOOLEAN :
       lazyVideo = [mode |-> mode, once |-> once, autoplay |-> autoplay,
                    hasData |-> hasData, ready |-> ready,
                    activated |-> FALSE, attached |-> attach(mode),
                    destroyed |-> FALSE, moved |-> 0, loads |-> 0,
                    plays |-> 0, phase |-> "idle"]
  /\ lvLast = [op |-> "none", pre |-> lazyVideo]

LazyIdle ==
  /\ lazyVideo = [mode |-> "manual", once |-> TRUE, autoplay |-> FALSE,
                  hasData |-> FALSE, ready |-> FALSE, activated |-> FALSE,
                  attached |-> {}, destroyed |-> FALSE, moved |-> 0,
                  loads |-> 0, plays |-> 0, phase |-> "idle"]
  /\ lvLast = [op |-> "none", pre |-> lazyVideo]

\* pointerenter, click or touchstart on the video: InteractionActivation's
\* bound listener activates and detaches.
Interaction(ev) ==
  /\ lazyVideo' = IF ev \in lazyVideo.attached
                  THEN [activate(lazyVideo) EXCEPT !.attached = {}]
                  ELSE lazyVideo
  /\ lvLast' = LvStep("signal")

\* A callback of the IntersectionObserver of ViewportActivation.
Intersection(isIntersecting) ==
  /\ lazyVideo' =
       IF "io" \in lazyVideo.attached /\ isIntersecting
       THEN [activate(lazyVideo) EXCEPT
               !.attached = IF lazyVideo.once THEN {} ELSE @]
       ELSE lazyVideo
  /\ lvLast' = LvStep("signal")

\* A direct call of activate() on the instance.
ActivateCall ==
  /\ lazyVideo' = activate(lazyVideo)
  /\ lvLast' = LvStep("activate")

\* The promise an activate() call awaits is settled.
Resume ==
  /\ lazyVideo.phase \in {"awaitLoad", "awaitPlay"}
  /\ lazyVideo' = resume(lazyVideo)
  /\ lvLast' = LvStep("resume")

\* LazyVideo.destroy(): strategy.detach().
LazyDestroy ==
  /\ lazyVideo' = [lazyVideo EXCEPT !.attached = {}, !.destroyed = TRUE]
  /\ lvLast' = LvStep("destroy")

LateIdle == BelowIdle /\ LazyIdle

UiIdle == NavIdle /\ SelectIdle /\ FileIdle /\ LateIdle

(***************************************************************************)
(* Specifications                                                          *)
(***************************************************************************)

InitToggle == TgInit /\ SwIdle /\ SSIdle /\ ParseIdle /\ MoverIdle /\ UiIdle
NextToggle ==
  \E i \in ToggleElements : Toggle(i) /\ UNCHANGED <<swVars, ssVars, psVars, bmVars, atVars, uiVars>>
SpecToggle == InitToggle /\ [][NextToggle]_vars

InitSwitch == SwInit /\ TgIdle /\ SSIdle /\ ParseIdle /\ MoverIdle /\ UiIdle
NextSwitch ==
  \E rule \in SwitchRules : SwitchToggle(rule) /\ UNCHANGED <<tgVars, ssVars, psVars, bmVars, atVars, uiVars>>
SpecSwitch == InitSwitch /\ [][NextSwitch]_vars

\* The page after new SetStateController().init(): clicks, the deferred
\* callbacks, and the re-rendering of the panel.
InitSetState ==
  SSInit /\ ssListening /\ TgIdle /\ SwIdle /\ ParseIdle /\ MoverIdle /\ UiIdle
NextSetState ==
  \/ \E n \in SSNodes : Click(n) /\ UNCHANGED <<tgVars, swVars, psVars, bmVars, atVars, uiVars>>
  \/ TimerFire /\ UNCHANGED <<tgVars, swVars, psVars, bmVars, atVars, uiVars>>
  \/ \E n \in Removable : Detach(n) /\ UNCHANGED <<tgVars, swVars, psVars, bmVars, atVars, uiVars>>
  \/ \E n \in Insertable : Attach(n) /\ UNCHANGED <<tgVars, swVars, psVars, bmVars, atVars, uiVars>>
SpecSetState == InitSetState /\ [][NextSetState]_vars

\* The controller from its construction on, with init() and destroy(), on
\* a page that is not re-rendered.
InitSetStateLifecycle ==
  SSInit /\ ~ssListening /\ TgIdle /\ SwIdle /\ ParseIdle /\ MoverIdle /\ UiIdle
NextSetStateLifecycle ==
  \/ \E n \in SSNodes : Click(n) /\ UNCHANGED <<tgVars, swVars, psVars, bmVars, atVars, uiVars>>
  \/ TimerFire /\ UNCHANGED <<tgVars, swVars, psVars, bmVars, atVars, uiVars>>
  \/ SSInitListener /\ UNCHANGED <<tgVars, swVars, psVars, bmVars, atVars, uiVars>>
  \/ SSDestroy /\ UNCHANGED <<tgVars, swVars, psVars, bmVars, atVars, uiVars>>
SpecSetStateLifecycle ==
  InitSetStateLifecycle /\ [][NextSetStateLifecycle]_vars

\* The initialised controller on a page that is not re-rendered and whose
\* data-set-state attributes are rewritten by another script; the clicks go
\* to the triggers with a rewritten attribute and to body.
InitSetStateAttr == InitSetState /\ ssClasses["P1"] = {}
NextSetStateAttr ==
  \/ \E n \in MutableTriggers \cup {"body"} :
       ClickRecorded(n) /\ UNCHANGED <<tgVars, swVars, psVars, bmVars, uiVars>>
  \/ TimerFire /\ UNCHANGED <<tgVars, swVars, psVars, bmVars, atVars, uiVars>>
  \/ \E tr \in MutableTriggers, v \in AttrChoices :
       SetAttribute(tr, v) /\ UNCHANGED <<tgVars, swVars, psVars, bmVars, uiVars>>
SpecSetStateAttr == InitSetStateAttr /\ [][NextSetStateAttr]_vars

\* One attribute value is read by the parser of its attribute.
InitParse == ParseIdle /\ TgIdle /\ SwIdle /\ SSIdle /\ MoverIdle /\ UiIdle
NextParse ==
  \/ \E str \in AttrValues("data-switch") :
       ReadSwitch(str) /\ UNCHANGED <<tgVars, swVars, ssVars, bmVars, atVars, uiVars>>
  \/ \E str \in AttrValues("data-toggle") :
       ReadToggle(str) /\ UNCHANGED <<tgVars, swVars, ssVars, bmVars, atVars, uiVars>>
  \/ \E str \in AttrValues("data-move") :
       ReadMove(str) /\ UNCHANGED <<tgVars, swVars, ssVars, bmVars, atVars, uiVars>>
  \/ \E raw \in AttrValues("data-set-state") :
       ReadSetState(raw) /\ UNCHANGED <<tgVars, swVars, ssVars, bmVars, atVars, uiVars>>
SpecParse == InitParse /\ [][NextParse]_vars

\* The page of main.js: DOMContentLoaded and the viewport changes.
InitMover == MoverInit /\ TgIdle /\ SwIdle /\ SSIdle /\ ParseIdle /\ UiIdle
NextMover ==
  \/ DOMContentLoaded /\ UNCHANGED <<tgVars, swVars, ssVars, psVars, atVars, uiVars>>
  \/ \E q \in Queries :
       MqChange(q) /\ UNCHANGED <<tgVars, swVars, ssVars, psVars, atVars, uiVars>>
SpecMover == InitMover /\ [][NextMover]_vars

\* The page of below-fold.js with a NavMenu: pointer, click and key events
\* and the changes of the media query.
OtherIdle == TgIdle /\ SwIdle /\ SSIdle /\ ParseIdle /\ MoverIdle
InitNav == NavInit /\ OtherIdle /\ SelectIdle /\ FileIdle /\ LateIdle
NextNav ==
  \/ \E item \in NavItems \cup {NoItem} : MouseOver(item) /\ UNCHANGED <<otherVars, selVars, fiVars, lateVars>>
  \/ \E inside \in BOOLEAN : MouseOut(inside) /\ UNCHANGED <<otherVars, selVars, fiVars, lateVars>>
  \/ \E item \in NavItems \cup {NoItem} : BtnClick(item) /\ UNCHANGED <<otherVars, selVars, fiVars, lateVars>>
  \/ \E key \in NavKeys : KeyDown(key) /\ UNCHANGED <<otherVars, selVars, fiVars, lateVars>>
  \/ \E matches \in BOOLEAN :
       NavMqChange(matches) /\ UNCHANGED <<otherVars, selVars, fiVars, lateVars>>
SpecNav == InitNav /\ [][NextNav]_vars

\* The same page when the menu can also be destroyed.
NextNavLifecycle ==
  \/ \E item \in NavItems \cup {NoItem} :
       MouseOver(item) /\ UNCHANGED <<otherVars, selVars, fiVars, lateVars>>
  \/ \E inside \in BOOLEAN :
       MouseOut(inside) /\ UNCHANGED <<otherVars, selVars, fiVars, lateVars>>
  \/ \E item \in NavItems \cup {NoItem} :
       BtnClick(item) /\ UNCHANGED <<otherVars, selVars, fiVars, lateVars>>
  \/ \E key \in NavKeys : KeyDown(key) /\ UNCHANGED <<otherVars, selVars, fiVars, lateVars>>
  \/ \E matches \in BOOLEAN :
       NavMqChange(matches) /\ UNCHANGED <<otherVars, selVars, fiVars, lateVars>>
  \/ NavDestroy /\ UNCHANGED <<otherVars, selVars, fiVars, lateVars>>
SpecNavLifecycle == InitNav /\ [][NextNavLifecycle]_vars

\* One AccessibleSelect and the calls of its public methods.
InitSelect == SelectInit /\ OtherIdle /\ NavIdle /\ FileIdle /\ LateIdle
NextSelect ==
  \/ Open /\ UNCHANGED <<otherVars, navVars, fiVars, lateVars>>
  \/ Close /\ UNCHANGED <<otherVars, navVars, fiVars, lateVars>>
  \/ SelectToggle /\ UNCHANGED <<otherVars, navVars, fiVars, lateVars>>
  \/ \E index \in -1..NumOptions : Choose(index) /\ UNCHANGED <<otherVars, navVars, fiVars, lateVars>>
  \/ Clear /\ UNCHANGED <<otherVars, navVars, fiVars, lateVars>>
SpecSelect == InitSelect /\ [][NextSelect]_vars

\* One file field: selections, cancelled pickers, clicks and form resets.
InitFile == FileInit /\ OtherIdle /\ NavIdle /\ SelectIdle /\ LateIdle
NextFile ==
  \/ \E files \in {<<>>} \cup {<<f>> : f \in PickableFiles} :
       Change(files) /\ UNCHANGED <<otherVars, navVars, selVars, lateVars>>
  \/ ClickInput /\ UNCHANGED <<otherVars, navVars, selVars, lateVars>>
  \/ FormReset /\ UNCHANGED <<otherVars, navVars, selVars, lateVars>>
SpecFile == InitFile /\ [][NextFile]_vars

\* The page of main.js from DOMContentLoaded on, with the triggers of
\* loadBelowFold; the rules of the mover share one media query.
InitBelow ==
  /\ InitMover
  /\ \A i \in MoveElements : bmRules[i].query = "max-width"
  /\ \A q \in Queries : mqMatches[q]
  /\ \A i \in MoveElements : i \in {bmChildren["body"][k] : k \in 1..Len(bmChildren["body"])}
belowRest == <<tgVars, swVars, ssVars, atVars, psVars, bmVars, navVars, selVars,
               fiVars, lvVars>>
NextBelow ==
  \/ DOMContentLoaded /\ UNCHANGED <<tgVars, swVars, ssVars, psVars, atVars, uiVars>>
  \/ \E hasIdleCallback \in BOOLEAN : WindowLoad(hasIdleCallback) /\ UNCHANGED belowRest
  \/ LoadCallback /\ UNCHANGED belowRest
  \/ \E ev \in OnceEvents : UserEvent(ev) /\ UNCHANGED belowRest
  \/ Timer8000 /\ UNCHANGED belowRest
  \/ \E ok \in BOOLEAN : ImportSettles(ok) /\ UNCHANGED belowRest
SpecBelow == InitBelow /\ [][NextBelow]_vars

\* Timers that are pending expire.
SpecBelowFair == SpecBelow /\ WF_vars(Timer8000 /\ UNCHANGED belowRest)

\* One LazyVideo after mount(): strategy signals, direct calls, the
\* continuations of activate() and destroy().
InitLazy ==
  LazyInit /\ BelowIdle /\ OtherIdle /\ NavIdle /\ SelectIdle /\ FileIdle
lazyRest == <<otherVars, navVars, selVars, fiVars, bfVars>>
NextLazy ==
  \/ \E ev \in InteractionEvents : Interaction(ev) /\ UNCHANGED lazyRest
  \/ \E isIntersecting \in BOOLEAN :
       Intersection(isIntersecting) /\ UNCHANGED lazyRest
  \/ ActivateCall /\ UNCHANGED lazyRest
  \/ Resume /\ UNCHANGED lazyRest
  \/ LazyDestroy /\ UNCHANGED lazyRest
SpecLazy == InitLazy /\ [][NextLazy]_vars

(***************************************************************************)
(* Properties of ToggleGroup (SpecToggle)                                  *)
(***************************************************************************)

\* The elements of the rules of group g, read from the rules themselves.
MembersOf(g) == {e \in ToggleElements : tgRules[e].group = g}

\* An element is active when it carries the className of its own rule.
ActiveIn(classes, e) == tgRules[e].className \in classes[e]

ActiveMembers(g) == {e \in MembersOf(g) : ActiveIn(tgClasses, e)}

\* C1: after toggle(r), when r's element did not carry r's class before the
\* click, exactly one element of r's group is active and it is r's element;
\* when r's element carried the class before the click, no element of the
\* group is active.  Initial class assignments are arbitrary.
C1_ToggleExclusiveSelect ==
  tgLast.op = "toggle" =>
    LET r == tgRules[tgLast.rule]
    IN IF ActiveIn(tgLast.pre, r.element)
       THEN ActiveMembers(r.group) = {}
       ELSE ActiveMembers(r.group) = {r.element}

\* A click on the active rule of a group that had a second active member.
C1_Witness ==
  /\ tgLast.op = "toggle"
  /\ ActiveIn(tgLast.pre, tgLast.rule)
  /\ \E e \in MembersOf(tgRules[tgLast.rule].group) :
       e # tgLast.rule /\ ActiveIn(tgLast.pre, e)
  /\ ActiveMembers(tgRules[tgLast.rule].group) = {}

\* C2: once a rule of group g was toggled, at most one rule of g has its
\* element carrying that rule's className, whatever is clicked afterwards.
C2_AtMostOneActive ==
  \A g \in tgLast.touched : Cardinality(ActiveMembers(g)) <= 1

\* Both groups were toggled, the last click was in another group than g, and
\* g (with at least two members, and two active ones initially) has one active.
C2_Witness ==
  /\ tgLast.touched = GroupNames
  /\ \E g \in GroupNames :
       /\ tgRules[tgLast.rule].group # g
       /\ Cardinality(MembersOf(g)) >= 2
       /\ Cardinality(ActiveMembers(g)) = 1

(***************************************************************************)
(* Properties of SwitchController (SpecSwitch)                             *)
(***************************************************************************)

\* C8: for a rule with a present target, action "on" leaves className on the
\* target and action "off" leaves it absent, whatever the prior classes and
\* the lock value; no other class and no other element changes.
C8_SwitchClassEffect ==
  (swLast.op = "toggle" /\ swLast.rule.target # NoTarget) =>
    LET r == swLast.rule
    IN /\ r.action = "on" => r.className \in swClasses[r.target]
       /\ r.action = "off" => r.className \notin swClasses[r.target]
       /\ \A t \in SwitchTargets, c \in ClassNames :
            (t # r.target \/ c # r.className) =>
              (c \in swClasses[t] <=> c \in swLast.pre[t])

\* An "on" toggle on a target that already had the class and also carries the
\* other class, with lock "true".
C8_Witness ==
  /\ swLast.op = "toggle"
  /\ swLast.rule.target # NoTarget
  /\ swLast.rule.action = "on"
  /\ swLast.rule.lock = "true"
  /\ swLast.pre[swLast.rule.target] = ClassNames
  /\ swClasses = swLast.pre

\* C9 as stated: stop() is called exactly by toggles of rules with action
\* "on" and lock "true", start() exactly by toggles of rules with action
\* "off" and lock "false" (so never for on/false, on/absent, off/true).
C9_LockCouplingAsStated ==
  swLast.op = "toggle" =>
    /\ CallsOf("stop") # {} <=>
         (swLast.rule.action = "on" /\ swLast.rule.lock = "true")
    /\ CallsOf("start") # {} <=>
         (swLast.rule.action = "off" /\ swLast.rule.lock = "false")

\* C9 amended: stop() is called (once) exactly by toggles of rules with a
\* present target, action "on" and lock "true"; start() (once) exactly by
\* toggles of rules with a present target, action "off" and lock "false".
C9_LockCoupling ==
  swLast.op = "toggle" =>
    LET r == swLast.rule
    IN /\ swLast.calls = <<"stop">> <=>
            (r.target # NoTarget /\ r.action = "on" /\ r.lock = "true")
       /\ swLast.calls = <<"start">> <=>
            (r.target # NoTarget /\ r.action = "off" /\ r.lock = "false")
       /\ swLast.calls \in {<<>>, <<"stop">>, <<"start">>}

\* An off/true toggle on a present target called nothing while lenis was
\* stopped, and lenis stays stopped.
C9_Witness ==
  /\ swLast.op = "toggle"
  /\ swLast.rule.target # NoTarget
  /\ swLast.rule.action = "off"
  /\ swLast.rule.lock = "true"
  /\ swLast.calls = <<>>
  /\ ~lenisRunning

\* C10 as stated: with an absent target, toggle changes no class but the
\* lock side effect still fires (stop() for on/true, start() for off/false).
C10_AbsentTargetLockFiresAsStated ==
  (swLast.op = "toggle" /\ swLast.rule.target = NoTarget) =>
    /\ swClasses = swLast.pre
    /\ (swLast.rule.action = "on" /\ swLast.rule.lock = "true")
         => CallsOf("stop") # {}
    /\ (swLast.rule.action = "off" /\ swLast.rule.lock = "false")
         => CallsOf("start") # {}

\* C10 amended: with an absent target, toggle changes no class and calls
\* neither stop() nor start(), whatever the action and the lock.
C10_AbsentTargetNoOp ==
  (swLast.op = "toggle" /\ swLast.rule.target = NoTarget) =>
    /\ swClasses = swLast.pre
    /\ swLast.calls = <<>>

\* An on/true toggle of a rule without target while lenis was running.
C10_Witness ==
  /\ swLast.op = "toggle"
  /\ swLast.rule.target = NoTarget
  /\ swLast.rule.action = "on"
  /\ swLast.rule.lock = "true"
  /\ swLast.calls = <<>>
  /\ lenisRunning

(***************************************************************************)
(* Properties of SetStateController (SpecSetState)                         *)
(***************************************************************************)

\* The last step was a click handled by the given branch of _onDocClick.
\* (A click leaves the document as it is, so ssDetached is the document the
\* click was dispatched in.)
LastClick(branch) ==
  ssLast.kind = "click" /\ BranchOf(ssLast.node, ssDetached) = branch

\* The classes configured for target t by the actions that can arm it: the
\* cached actions with outsideReset whose target is t.
ArmingClasses(s, t) ==
  {s.cache[tr].className :
     tr \in {x \in DOMAIN s.cache : s.cache[x].target = t
                                    /\ s.cache[x].outsideReset}}

\* C3: after a click that matches neither a trigger nor a reset element,
\* every armed target of the document that was not suppressed and does not
\* contain the click target has lost its configured class and is disarmed,
\* and every armed target containing the click target keeps its classes and
\* stays armed.
C3_OutsideClickReset ==
  LastClick("outside") =>
    \A t \in ssLast.pre.active :
      IF Contains(t, ssLast.node, ssDetached)
      THEN t \in outsideActive /\ ssClasses[t] = ssLast.pre.classes[t]
      ELSE (t \notin ssLast.pre.suppress /\ InDoc(t, ssDetached)) =>
             /\ t \notin outsideActive
             /\ ArmingClasses(ssLast.pre, t) \cap ssClasses[t] = {}

\* C4: also after re-rendering (the resolved target removed, a new node
\* matching the selector inserted), a click outside an armed, unsuppressed
\* target of the document that matches no trigger and no reset element
\* removes the arming trigger's class from that target.
C4_RerenderedTargetReset ==
  \A t \in SSTargets :
    (/\ LastClick("outside")
     /\ t \in ssLast.pre.active \ ssLast.pre.suppress
     /\ InDoc(t, ssDetached)
     /\ ~Contains(t, ssLast.node, ssDetached))
    => \A tr \in DOMAIN ssLast.pre.cache :
         (ssLast.pre.cache[tr].target = t /\ ssLast.pre.cache[tr].outsideReset)
           => ssLast.pre.cache[tr].className \notin ssClasses[t]

\* C5: right after a click on a trigger whose action applied (its target
\* resolved) and requests outsideReset, the target carries the class, is
\* armed and is suppressed, whatever was armed before.
C5_OpeningClickKeepsOpen ==
  LastClick("trigger") =>
    LET tr == TriggerOf(ssLast.node, ssDetached)
    IN (/\ tr \in DOMAIN actionCache
        /\ actionCache[tr].outsideReset
        /\ actionCache[tr].target # NoNode)
       => /\ actionCache[tr].className \in ssClasses[actionCache[tr].target]
          /\ actionCache[tr].target \in outsideActive
          /\ actionCache[tr].target \in suppress

\* t1 re-opened P1, which already carried the class, while Q was armed and
\* not suppressed: an outside click for Q.
C5_Witness ==
  /\ LastClick("trigger")
  /\ ssLast.node = "t1"
  /\ "Q" \in ssLast.pre.active \ ssLast.pre.suppress
  /\ "_is-active" \in ssLast.pre.classes["P1"]
  /\ actionCache["t1"].target = "P1"
  /\ "P1" \in outsideActive \cap suppress
  /\ "_is-active" \in ssClasses["P1"]

\* C6: a click whose target has an ancestor-or-self trigger removes no class
\* and disarms no target: no reset and no outside scan runs, also when the
\* attribute does not parse or the target does not resolve.
C6_TriggerShortCircuits ==
  LastClick("trigger") =>
    /\ \A t \in SSTargets : ssLast.pre.classes[t] \subseteq ssClasses[t]
    /\ ssLast.pre.active \subseteq outsideActive

\* A click on t4 (attribute "", inside the reset element r1 of the armed
\* panel P1) while P1 and Q are armed, open and not suppressed.
C6_Witness ==
  /\ LastClick("trigger")
  /\ ssLast.node = "t4"
  /\ ResetElOf(ssLast.node, ssDetached) = "r1"
  /\ ssLast.pre.active = {"P1", "Q"}
  /\ ssLast.pre.suppress = {}
  /\ "_is-active" \in ssClasses["P1"] \cap ssClasses["Q"]
  /\ outsideActive = {"P1", "Q"}

\* C7: a click whose nearest ancestor-or-self reset element is resetEl (no
\* trigger matching) removes the class of every action registered against
\* resetEl, disarms resetEl, and resets (removes the arming classes of) and
\* disarms every armed target containing resetEl.
C7_ExplicitReset ==
  LastClick("reset") =>
    LET resetEl == ResetElOf(ssLast.node, ssDetached)
    IN /\ \A tr \in Get(ssLast.pre.byTarget, resetEl) :
            ssLast.pre.cache[tr].className \notin ssClasses[resetEl]
       /\ resetEl \notin outsideActive
       /\ \A t \in ssLast.pre.active :
            Contains(t, resetEl, ssDetached) =>
              /\ t \notin outsideActive
              /\ ArmingClasses(ssLast.pre, t) \cap ssClasses[t] = {}

(***************************************************************************)
(* Properties of the attribute parsers (SpecParse)                         *)
(***************************************************************************)

\* The last ";"-separated segment of the value read last; no later segment
\* can replace the entry it yields.
LastSegment == LET segs == SplitOn(parsed.input, ";") IN segs[Len(segs)]

\* C11: for each of the data-switch, data-toggle and data-move parsers, a
\* segment with a ":" yields the text before its first ":" as the key and
\* the whole remainder, further ":" included, as the value; and
\* "from:#a;to:#b;query:(max-width: 48em)" yields the query
\* "(max-width: 48em)".
C11_FirstColonSplit ==
  parsed.parser \in {"data-switch", "data-toggle", "data-move"} =>
    /\ LET p == LastSegment
           i == FirstPos(p, ":")
       IN i # 0 =>
            Prop(parsed.cfg, AtomOf(SubSeq(p, 1, i - 1))) =
              SubSeq(p, i + 1, Len(p))
    /\ (parsed.parser = "data-move" /\ parsed.input = MoveExample) =>
         parsed.rule.query = DefaultQuery

\* C12: parseConfig of "target:#a;class:_x;action:off" is exactly
\* {target: "#a", class: "_x", action: "off"}; in every rule a class that is
\* missing or empty gives className "_is-active" and any other class is
\* kept, action is "off" for the value "off" and "on" otherwise, lock is
\* "true" for the value "true" and "false" otherwise.
C12_SwitchParseDefaults ==
  parsed.parser = "data-switch" =>
    LET cfg == parsed.cfg
        rule == parsed.rule
    IN /\ parsed.input = SwitchExample =>
            /\ DOMAIN cfg = {"target", "class", "action"}
            /\ cfg["target"] = <<"#a">>
            /\ cfg["class"] = <<"_x">>
            /\ cfg["action"] = <<"off">>
       /\ rule.className =
            (IF Prop(cfg, "class") \in {Undefined, <<>>}
             THEN <<"_is-active">> ELSE Prop(cfg, "class"))
       /\ rule.action \in {"on", "off"}
       /\ rule.action = "off" <=> Prop(cfg, "action") = <<"off">>
       /\ rule.lock \in {"true", "false"}
       /\ rule.lock = "true" <=> Prop(cfg, "lock") = <<"true">>

\* "class:;action:true" was read: an empty class, an action that is not
\* "off" and no lock.
C12_Witness ==
  /\ parsed.parser = "data-switch"
  /\ parsed.input = SwitchEmptyClass
  /\ parsed.rule.className = <<"_is-active">>
  /\ parsed.rule.action = "on"
  /\ parsed.rule.lock = "false"

\* The i-th comma-separated field of the value read last, trimmed; "" when
\* the value has fewer fields.
Field(i) ==
  LET fields == SetStateFields(parsed.input)
  IN IF i <= Len(fields) THEN fields[i] ELSE ""

\* C20: a data-set-state value with a non-empty first field is read by
\* position: the selector is the first field, className is the second field
\* or "_is-active" when that is absent or empty, outsideReset is true
\* exactly when the third field is "true", "1" or "yes" in any case; so
\* "#p,,true" yields selector "#p", className "_is-active", outsideReset
\* true.
C20_PositionalFields ==
  (parsed.parser = "data-set-state" /\ Field(1) # "") =>
    /\ parsed.rule.ok
    /\ parsed.rule.selector = Field(1)
    /\ parsed.rule.className =
         (IF Field(2) = "" THEN "_is-active" ELSE Field(2))
    /\ parsed.rule.outsideReset <=>
         ToLowerCase(Field(3)) \in {"true", "1", "yes"}

(***************************************************************************)
(* Properties of BreakpointMover and of the page start-up (SpecMover)      *)
(***************************************************************************)

\* el is a child of container c; nothing is a child of a missing container.
ChildOf(el, c) ==
  c # NoNode /\ \E k \in 1 .. Len(bmChildren[c]) : bmChildren[c][k] = el

\* How often el occurs in the child list of c.
Occurrences(children, c, el) ==
  IF c = NoNode THEN 0
  ELSE Cardinality({k \in 1 .. Len(children[c]) : children[c][k] = el})

\* Rule i's element is where the rule's media query puts it.
Placed(i) ==
  LET r == bmRules[i]
  IN /\ ChildOf(r.element, r.to) <=> mqMatches[r.query]
     /\ ChildOf(r.element, r.from) <=> ~mqMatches[r.query]

\* C13: once init() has run, and after every change notification, every
\* rule's element is a child of `to` exactly when the rule's query matches
\* and a child of `from` exactly when it does not.
C13_PlacementInvariant ==
  domLoaded => \A i \in MoveElements : Placed(i)

\* C14: in every state, for every rule and either value of e.matches, a
\* second handle(rule, e) leaves all child lists as the first left them;
\* after a handle that placed the element it occurs exactly once in the
\* children of `from` and `to` together; every element occurs exactly once
\* in the page, before and after.
C14_PlacementIdempotent ==
  /\ \A el \in MoveElements :
       Occurrences(bmChildren, "A", el) + Occurrences(bmChildren, "B", el)
         + Occurrences(bmChildren, "body", el) = 1
  /\ \A i \in MoveElements, m \in BOOLEAN :
       LET r == bmRules[i]
           once == handle(r, m, bmChildren)
           twice == handle(r, m, once.children)
       IN /\ twice.children = once.children
          /\ ~once.threw =>
               /\ Occurrences(once.children, r.from, r.element)
                    + Occurrences(once.children, r.to, r.element) = 1
               /\ \A el \in MoveElements :
                    Occurrences(once.children, "A", el)
                      + Occurrences(once.children, "B", el)
                      + Occurrences(once.children, "body", el) = 1

\* A change notification has moved an element into a container that holds
\* another element as well, so the order of its children matters.
C14_Witness ==
  /\ bmLast.op = "change"
  /\ bmLast.handled # {}
  /\ ~bmLast.threw
  /\ \E c \in Containers : Len(bmChildren[c]) >= 2

\* C15: no BreakpointMover operation throws: init() and every change
\* notification return normally, whichever containers are missing.
C15_AbsentNodesNeverRaise == ~bmLast.threw

\* C16: after the DOMContentLoaded handler, every rule whose `from` and `to`
\* both exist is placed and subscribed, and the triggers of loadBelowFold
\* are registered, whatever the other rules' containers are.
C16_FaultIsolation ==
  domLoaded =>
    /\ belowTriggers
    /\ \A i \in MoveElements :
         (bmRules[i].from # NoNode /\ bmRules[i].to # NoNode) =>
           i \in bmSubscribed /\ Placed(i)

(***************************************************************************)
(* Properties of SetStateController: the action cache and the armed set    *)
(* (SpecSetState, SpecSetStateLifecycle)                                   *)
(***************************************************************************)

\* The trigger of the click handled last.
LastTrigger == TriggerOf(ssLast.node, ssDetached)

\* The fields of an action that its constructor sets from the directive.
Directive(a) ==
  [selector |-> a.selector, className |-> a.className,
   outsideReset |-> a.outsideReset]

\* C17: no step removes or rebuilds a cached action; a click on a trigger
\* without an action creates one exactly when its attribute parses; a click
\* on a trigger with an action keeps the action, whose target afterwards is
\* the cached node if that is still in the document and otherwise the node
\* the selector matches now, and that node carries the action's class.
C17_ActionCachedAndReResolved ==
  /\ \A x \in DOMAIN ssLast.pre.cache :
       /\ x \in DOMAIN actionCache
       /\ Directive(actionCache[x]) = Directive(ssLast.pre.cache[x])
  /\ LastClick("trigger") =>
       LET tr == LastTrigger
           pre == ssLast.pre
       IN IF tr \in DOMAIN pre.cache
          THEN LET old == pre.cache[tr]
                   now == actionCache[tr]
               IN /\ now.target =
                       (IF old.target # NoNode /\ InDoc(old.target, ssDetached)
                        THEN old.target
                        ELSE QuerySelector(old.selector, ssDetached))
                  /\ now.target # NoNode =>
                       /\ InDoc(now.target, ssDetached)
                       /\ now.className \in ssClasses[now.target]
          ELSE /\ DOMAIN actionCache \ DOMAIN pre.cache \subseteq {tr}
               /\ tr \in DOMAIN actionCache <=> Parse(SetStateAttr[tr]).ok

\* t1's action had cached P1; P1 has left the document and P2 matches #p
\* now: the click on t1 re-resolved the target to P2 and opened P2.
C17_Witness ==
  /\ LastClick("trigger")
  /\ ssLast.node = "t1"
  /\ "t1" \in DOMAIN ssLast.pre.cache
  /\ ssLast.pre.cache["t1"].target = "P1"
  /\ "P1" \in ssDetached
  /\ actionCache["t1"].target = "P2"
  /\ "_is-active" \in ssClasses["P2"]
  /\ "_is-active" \notin ssLast.pre.classes["P2"]

\* The targets that entered, and those that left, the armed set in the
\* last step.
Armed == outsideActive \ ssLast.pre.active

Disarmed == ssLast.pre.active \ outsideActive

\* A target is armed only by a click on a trigger whose action has
\* outsideReset, resolves to that target and has put its class on it.
ArmedOnlyByApply ==
  \A t \in Armed :
    /\ LastClick("trigger")
    /\ LastTrigger \in DOMAIN actionCache
    /\ actionCache[LastTrigger].outsideReset
    /\ actionCache[LastTrigger].target = t
    /\ actionCache[LastTrigger].className \in ssClasses[t]

\* A click on a trigger whose action has outsideReset=false arms nothing.
NeverArmedByPlainTrigger ==
  (/\ LastClick("trigger")
   /\ LastTrigger \in DOMAIN actionCache
   /\ ~actionCache[LastTrigger].outsideReset) => Armed = {}

\* C18: a target enters the armed set only through a successful apply of an
\* action with outsideReset=true in a trigger click, and leaves it only in a
\* click handled by the reset branch or by the outside branch of
\* _onDocClick; a click on a trigger with outsideReset=false arms nothing,
\* and an outside click changes the classes of no target that was not
\* armed.
C18_ActiveSetMembership ==
  /\ ArmedOnlyByApply
  /\ Disarmed # {} => (LastClick("reset") \/ LastClick("outside"))
  /\ NeverArmedByPlainTrigger
  /\ LastClick("outside") =>
       \A t \in SSTargets :
          ssClasses[t] # ssLast.pre.classes[t] => t \in ssLast.pre.active

\* C19: after a click on a trigger, a second click on the same node leaves
\* every element's classes and the armed set as the first click left them.
C19_ApplyIdempotent ==
  LastClick("trigger") =>
    LET again == onDocClick(SSState, ssLast.node, ssDetached)
    IN /\ again.classes = ssClasses
       /\ again.active = outsideActive

\* The click on t1 added the class to P1 and armed it, so a second click
\* finds the class present and the target armed.
C19_Witness ==
  /\ LastClick("trigger")
  /\ ssLast.node = "t1"
  /\ "_is-active" \in ssClasses["P1"] \ ssLast.pre.classes["P1"]
  /\ "P1" \in outsideActive \ ssLast.pre.active

(***************************************************************************)
(* Properties of SetStateController: shared targets, destroy and the       *)
(* suppression set (SpecSetState, SpecSetStateLifecycle)                   *)
(***************************************************************************)

\* The triggers that were clicked and resolved to target t before the last
\* step: their actions are cached with target t.
ClickedFor(t) ==
  {tr \in DOMAIN ssLast.pre.cache : ssLast.pre.cache[tr].target = t}

\* C21: when a click handled by the reset branch or by the outside branch
\* has reset a target of the document (the target left the armed set) that
\* several clicked triggers resolved to, the target carries the class of
\* none of their actions.
C21_SharedTargetsResetTogether ==
  (LastClick("reset") \/ LastClick("outside")) =>
    \A t \in Disarmed :
      (InDoc(t, ssDetached) /\ Cardinality(ClickedFor(t)) >= 2) =>
        \A tr \in ClickedFor(t) :
          ssLast.pre.cache[tr].className \notin ssClasses[t]

PendingTargets == {timers[k] : k \in 1 .. Len(timers)}

\* C24: every suppressed target has a pending deferred callback that will
\* remove it, so the suppression set is empty whenever no callback is
\* pending; destroy() included.
C24_SuppressionShortLived ==
  /\ suppress \subseteq PendingTargets
  /\ timers = <<>> => suppress = {}

\* The only pending callback ran and took the last target out of the
\* suppression set.
C24_Witness ==
  /\ ssLast.kind = "timer"
  /\ timers = <<>>
  /\ ssLast.pre.suppress # {}
  /\ suppress = {}
  /\ Len(ssLast.pre.timers) = 1

\* C30: a target whose deferred callback is pending is suppressed, also
\* when an earlier callback for the same target has run meanwhile; and an
\* outside click leaves every armed target with a pending callback armed
\* and its classes as they were.
C30_SuppressedUntilOwnCallback ==
  /\ \A t \in PendingTargets : t \in outsideActive => t \in suppress
  /\ LastClick("outside") =>
       \A k \in 1 .. Len(ssLast.pre.timers) :
         LET t == ssLast.pre.timers[k]
         IN t \in ssLast.pre.active =>
              /\ t \in outsideActive
              /\ ssClasses[t] = ssLast.pre.classes[t]

(***************************************************************************)
(* Properties of SetStateController under attribute changes                *)
(* (SpecSetStateAttr)                                                      *)
(***************************************************************************)

\* The directive SetStateParser.parse returns for the split attribute.
DirectiveOf(fields) == Directive(Parse(fields))

\* C22 as stated: what a trigger does is fixed by the attribute it had at
\* its first click: if that attribute parsed, the trigger's action has its
\* directive for good; if it did not parse, the trigger has no action and
\* its clicks change no class, whatever the attribute is changed to.
C22_FixedAtFirstClick ==
  \A tr \in DOMAIN ssFirstAttr :
    IF Parse(ssFirstAttr[tr]).ok
    THEN /\ tr \in DOMAIN actionCache
         /\ Directive(actionCache[tr]) = DirectiveOf(ssFirstAttr[tr])
    ELSE /\ tr \notin DOMAIN actionCache
         /\ (LastClick("trigger") /\ LastTrigger = tr) =>
              ssClasses = ssLast.pre.classes

\* C22 amended: what a trigger does is fixed by the attribute it had at the
\* first click at which the attribute parsed: the action created then has
\* that attribute's directive, no later step (a rewrite of the attribute
\* included) changes the directive of a cached action, and a click on a
\* trigger with a cached action adds that action's class to its target and
\* changes no other class.
C22_FixedAtFirstParse ==
  /\ \A x \in DOMAIN ssLast.pre.cache :
       /\ x \in DOMAIN actionCache
       /\ Directive(actionCache[x]) = Directive(ssLast.pre.cache[x])
  /\ LastClick("trigger") =>
       LET tr == LastTrigger
           pre == ssLast.pre
       IN IF tr \in DOMAIN pre.cache
          THEN LET tgt == actionCache[tr].target
               IN ssClasses =
                    (IF tgt = NoNode THEN pre.classes
                     ELSE [pre.classes EXCEPT
                             ![tgt] = @ \cup {pre.cache[tr].className}])
          ELSE tr \in DOMAIN actionCache =>
                 Directive(actionCache[tr]) = DirectiveOf(pre.attr[tr])

\* t2 was clicked with "#p,_x", its attribute was rewritten to "#q,_x,true",
\* and the next click on t2 still acted on P1: Q has no _x and is not armed.
C22_Witness ==
  /\ LastClick("trigger")
  /\ ssLast.node = "t2"
  /\ "t2" \in DOMAIN ssLast.pre.cache
  /\ ssAttr["t2"] = <<"#q", "_x", "true">>
  /\ actionCache["t2"].selector = "#p"
  /\ actionCache["t2"].target = "P1"
  /\ "_x" \in ssClasses["P1"]
  /\ "_x" \notin ssClasses["Q"]
  /\ "Q" \notin outsideActive


(***************************************************************************)
(* Properties of NavMenu (SpecNav)                                         *)
(***************************************************************************)

NavActive == navMenu.classes \cap NavItems

\* C25: in desktop mode, after a mouseover on an item inside the root that
\* item is the only item carrying the active class, whatever mouseovers and
\* mouseouts came before; with clearOnLeave, after a mouseout whose
\* relatedTarget is outside the root no item is active.
C25_DesktopSoleActive ==
  /\ (navLast.op = "mouseover" /\ navLast.item # NoItem
        /\ navLast.pre.mode = "desktop")
       => NavActive = {navLast.item}
  /\ (navLast.op = "mouseout" /\ ~navLast.inside /\ navOpts.clearOnLeave
        /\ navLast.pre.mode = "desktop")
       => NavActive = {}

\* The pointer moved from one active item onto another item.
C25_Witness ==
  /\ navLast.op = "mouseover" /\ navLast.item # NoItem
  /\ navLast.pre.mode = "desktop"
  /\ navLast.pre.classes # {} /\ navLast.item \notin navLast.pre.classes
  /\ NavActive = {navLast.item}

\* C26: in mobile mode a click on an item's button makes the item the sole
\* active item when it was inactive and leaves no item active when it was
\* active; at most one item is active at any time, and Escape with
\* escToClear leaves none.
C26_MobileToggle ==
  /\ (navLast.op = "click" /\ navLast.item # NoItem
        /\ navLast.pre.mode = "mobile")
       => NavActive = IF navLast.item \in navLast.pre.classes
                      THEN {} ELSE {navLast.item}
  /\ navMenu.mode = "mobile" => Cardinality(NavActive) <= 1
  /\ (navLast.op = "keydown" /\ navLast.key = "Escape" /\ navOpts.escToClear
        /\ navLast.pre.mode = "mobile")
       => NavActive = {}

\* A click on the button of an inactive item while another item was active.
C26_Witness ==
  /\ navLast.op = "click" /\ navLast.item # NoItem
  /\ navLast.pre.mode = "mobile"
  /\ navLast.pre.classes # {} /\ navLast.item \notin navLast.pre.classes
  /\ NavActive = {navLast.item}



(***************************************************************************)
(* Properties of AccessibleSelect (SpecSelect)                             *)
(***************************************************************************)

\* C27: on a select with a button, after open(), close() or toggle() the
\* button's aria-expanded is "true" exactly when the root carries
\* _is-active, and the document pointerdown and keydown listeners are
\* registered exactly when the select is open, once each.
C27_VisibilityInSync ==
  (selOpts.hasBtn /\ selLast.op \in {"open", "close", "toggle"})
    => /\ (selView.expanded = "true") <=> selView.active
       /\ selView.expanded \in {"true", "false"}
       /\ selView.pointerdown = (IF selView.active THEN 1 ELSE 0)
       /\ selView.keydown = (IF selView.active THEN 1 ELSE 0)

\* open() on a select that was open already.
C27_Witness ==
  /\ selOpts.hasBtn /\ selLast.op = "open"
  /\ selLast.pre.view.active /\ selLast.pre.view.pointerdown = 1
  /\ selView.active /\ selView.pointerdown = 1 /\ selView.keydown = 1

\* C28: after choose(i) and after clear() the hidden input's value is the
\* selected values joined with valueSeparator and an option's aria-selected
\* is "true" exactly when its value is selected; clear() leaves the set and
\* the input empty.
C28_ValueAndAriaInSync ==
  /\ ((selLast.op = "choose" /\ selLast.index \in OptionIndexes)
        \/ selLast.op = "clear")
       => /\ selOpts.hasInput => selData.input = Join(selData.selected)
          /\ \A o \in OptionIndexes :
               (selData.aria[o] = "true")
                 <=> SetHas(selData.selected, OptionValue(o))
  /\ selLast.op = "clear"
       => selData.selected = <<>> /\ selData.input = <<>>



(***************************************************************************)
(* Properties of FileInputController (SpecFile)                            *)
(***************************************************************************)

\* C29: when the placeholder shows the name of a valid file and the
\* selection is cleared (a change event with no file, or a click on the
\* input while it holds no files), the placeholder is the original
\* placeholder text again and fileinput:clear is dispatched.
C29_ClearRestoresPlaceholder ==
  (/\ fiLast.op \in {"change", "click"}
   /\ fiFiles = <<>>
   /\ fiLast.pre.placeholder \in FileNames)
    => /\ fiLast.event = "fileinput:clear"
       /\ fiView.placeholder = fiOriginal



(***************************************************************************)
(* Frame of the reset branch of SetStateController (SpecSetState)          *)
(***************************************************************************)

\* The targets a click on the reset element resetEl may change: resetEl
\* itself and the targets armed before the click that contain it.
ResetScope(resetEl) ==
  {t \in SSTargets :
     t = resetEl \/ (t \in ssLast.pre.active /\ Contains(t, resetEl, ssDetached))}

OwnGroup == {e \in ToggleElements : tgRules[e].group = tgRules[tgLast.rule].group}

\* C32 as stated: toggle(rule) changes only rule.className on the elements
\* of rule's own group; the elements of other groups, and every other class
\* on the group's own elements, are unchanged.
C32_FrameRuleClass ==
  tgLast.op = "toggle"
    => \A e \in ToggleElements :
         IF e \in OwnGroup
         THEN tgClasses[e] \ {tgRules[tgLast.rule].className}
                = tgLast.pre[e] \ {tgRules[tgLast.rule].className}
         ELSE tgClasses[e] = tgLast.pre[e]

\* C32 amended: toggle(rule) changes, on an element of rule's own group,
\* only the class named by that element's own rule; the elements of other
\* groups, and every other class on the group's own elements, are unchanged.
C32_FrameOwnClass ==
  tgLast.op = "toggle"
    => \A e \in ToggleElements :
         IF e \in OwnGroup
         THEN tgClasses[e] \ {tgRules[e].className}
                = tgLast.pre[e] \ {tgRules[e].className}
         ELSE tgClasses[e] = tgLast.pre[e]

\* A toggle in a group with two class names took the own class of another
\* member, while an element of the other group kept its classes.
C32_Witness ==
  /\ tgLast.op = "toggle"
  /\ \E e \in OwnGroup :
       /\ tgRules[e].className # tgRules[tgLast.rule].className
       /\ tgRules[e].className \in tgLast.pre[e]
       /\ tgRules[e].className \notin tgClasses[e]
  /\ \E e \in ToggleElements \ OwnGroup : tgClasses[e] # {}



(***************************************************************************)
(* Mode switching and destruction of NavMenu (SpecNavLifecycle)            *)
(***************************************************************************)

NavDestroyed == "mq" \notin navLast.pre.listeners

\* C33: after a media-query flip no item is active, _currentDesktopActive
\* is null and only the listeners of the new mode are attached; in mobile
\* mode a mouseover or mouseout changes no class, in desktop mode a button
\* click or a key changes no class; a notification that reports the current
\* mode again changes nothing; after destroy() no event changes a class.
C33_ModeSwitching ==
  /\ (navLast.op = "mq" /\ ~NavDestroyed /\ navLast.key # navLast.pre.mode)
       => /\ NavActive = {}
          /\ navMenu.current = NoItem
          /\ navMenu.mode = navLast.key
          /\ navMenu.listeners = {"mq"} \cup setupListeners(navLast.key, navOpts)
  /\ (navLast.op = "mq" /\ navLast.key = navLast.pre.mode)
       => navMenu = navLast.pre
  /\ (navLast.pre.mode = "mobile" /\ navLast.op \in {"mouseover", "mouseout"})
       => navMenu.classes = navLast.pre.classes
  /\ (navLast.pre.mode = "desktop" /\ navLast.op \in {"click", "keydown"})
       => navMenu.classes = navLast.pre.classes
  /\ (NavDestroyed /\ navLast.op # "none")
       => navMenu.classes = navLast.pre.classes

\* The query flipped to mobile while an item was active on the desktop.
C33_Witness ==
  /\ navLast.op = "mq" /\ navLast.key = "mobile"
  /\ navLast.pre.mode = "desktop" /\ navLast.pre.classes # {}
  /\ NavActive = {} /\ navMenu.current = NoItem
  /\ "click" \in navMenu.listeners /\ "mouseover" \notin navMenu.listeners



(***************************************************************************)
(* Properties of loadBelowFold (SpecBelow, SpecBelowFair)                  *)
(***************************************************************************)

\* The number of calls of loadBelowFold made so far.
BelowCalls ==
  (IF belowFold.load = "ran" THEN 1 ELSE 0)
    + Cardinality(OnceEvents \ belowFold.once)
    + (IF belowFold.timer8000 THEN 0 ELSE 1)

\* C34: whichever triggers fire, in whatever order and number, the import
\* of below-fold.js is started at most once, also after it has failed.
C34_ImportAtMostOnce ==
  /\ belowFold.imports <= 1
  /\ belowFold.result # "none" => belowFold.imports = 1

\* Every trigger has fired and the only import has failed.
C34_Witness ==
  /\ belowFold.result = "failed" /\ belowFold.imports = 1
  /\ BelowCalls = Cardinality(OnceEvents) + 2

\* C35: once the DOMContentLoaded handler has completed, the import of
\* below-fold.js is eventually started, by the 8000 ms timer if by nothing
\* else.
C35_EventuallyLoaded == belowTriggers ~> (belowFold.imports > 0)

\* The import was started by the 8000 ms timer alone: no user event and
\* no load event happened.
C35_Witness ==
  /\ belowTriggers /\ belowFold.imports = 1
  /\ belowFold.once = OnceEvents /\ belowFold.load = "waiting"
  /\ ~belowFold.timer8000

(***************************************************************************)
(* Properties of LazyVideo (SpecLazy)                                      *)
(***************************************************************************)

\* C36: however many signals and activate() calls arrive, a call made
\* during an await included, the sources are moved and load() is called at
\* most once, and after destroy() no strategy signal activates the video.
C36_ActivatesAtMostOnce ==
  /\ lazyVideo.moved <= 1
  /\ lazyVideo.loads <= 1
  /\ lazyVideo.plays <= 1
  /\ (lvLast.op = "signal" /\ lvLast.pre.destroyed)
       => lazyVideo = lvLast.pre

\* activate() was called while the first call was awaiting load().
C36_Witness ==
  /\ lvLast.op = "activate" /\ lvLast.pre.phase = "awaitLoad"
  /\ lazyVideo.moved = 1 /\ lazyVideo.loads = 1



(***************************************************************************)
(* Selection modes of AccessibleSelect (SpecSelect)                        *)
(***************************************************************************)

ChoseValid == selLast.op = "choose" /\ selLast.index \in OptionIndexes

\* What C37 says of the selection, whatever the select is made of.
SelectionByMode ==
  /\ ~selOpts.multiple => selOpts.closeOnSelect
  /\ (ChoseValid /\ ~selOpts.multiple)
       => /\ selData.selected = <<OptionValue(selLast.index)>>
          /\ \A o \in OptionIndexes :
               (selData.aria[o] = "true") <=> (o = selLast.index)
  /\ (ChoseValid /\ selOpts.multiple)
       => LET val == OptionValue(selLast.index)
          IN /\ SetHas(selData.selected, val)
                  <=> ~SetHas(selLast.pre.data.selected, val)
             /\ SetDelete(selData.selected, val)
                  = SetDelete(selLast.pre.data.selected, val)
  /\ (selLast.op = "choose" /\ selLast.index \notin OptionIndexes)
       => selData = selLast.pre.data /\ selView = selLast.pre.view

\* C37 as stated: in single mode closeOnSelect is forced, and after a
\* choose(i) with a valid index exactly option i's value is selected,
\* exactly that option has aria-selected "true" and the select is closed;
\* in multiple mode choose(i) toggles option i's value and leaves the other
\* values; an out-of-range index changes nothing.
C37_SelectionModes ==
  /\ SelectionByMode
  /\ (ChoseValid /\ ~selOpts.multiple) => ~selView.active

\* C37 amended: the same, the select being closed after a single-mode
\* choose when it has a button.
C37_SelectionModesWithButton ==
  /\ SelectionByMode
  /\ (ChoseValid /\ ~selOpts.multiple /\ selOpts.hasBtn)
       => ~selView.active /\ selView.expanded = "false"

\* A single-mode choose on an open select that had another value selected.
C37_Witness ==
  /\ ChoseValid /\ ~selOpts.multiple /\ selOpts.hasBtn
  /\ selLast.pre.view.active
  /\ selLast.pre.data.selected # <<>>
  /\ ~SetHas(selLast.pre.data.selected, OptionValue(selLast.index))
  /\ selData.selected = <<OptionValue(selLast.index)>>
  /\ ~selView.active


====
